---------------------------- MODULE UnifdefProofs ----------------------------
(***************************************************************************)
(* Proofs about unifdef, for any level of nesting, any set of options and  *)
(* any file: what it writes means what it reads.                           *)
(***************************************************************************)
EXTENDS UnifdefMeaning, Integers, TLAPS

-----------------------------------------------------------------------------
(* The inductive invariant, in its parts.                                   *)

(* The states of a group whose #if is in the output, and those after #else. *)
Open   == { "PASS_MIDDLE", "FALSE_MIDDLE", "TRUE_MIDDLE", "PASS_ELSE" }
Elsed  == { "PASS_ELSE", "FALSE_ELSE", "TRUE_ELSE" }

Preprocessor == [ groups : Seq(PPGroup), bad : BOOLEAN ]

(* The group is inside one that is being dropped.                           *)
Buried(i) == Dropping(ifstate[i - 1])

(* What the state of a group says of the group in the input: of its current *)
(* branch, and of the branches before.                                      *)
SourceLevel(i) ==
  LET s == ifstate[i]
      g == src.groups[i]
  IN /\ g.else <=> s \in Elsed
     /\ Buried(i) => s \in { "FALSE_TRAILER", "FALSE_ELSE" }
     /\ ~Buried(i) =>
          /\ Dropping(s) => ~g.on
          /\ s \in { "TRUE_PREFIX", "TRUE_ELSE" } => g.on
          /\ s = "FALSE_PREFIX" => ~g.taken
          /\ s \in { "TRUE_PREFIX", "TRUE_MIDDLE", "FALSE_TRAILER" } => g.taken

(* Inside a group that is dropped all is dropped, and a group that is       *)
(* dropped is in one whose branch is not compiled.                          *)
SourceInv ==
  /\ src \in Preprocessor
  /\ ~src.bad
  /\ Len(src.groups) = depth
  /\ \A i \in 1 .. depth : SourceLevel(i)
  /\ \A i, j \in 0 .. depth : i <= j /\ Dropping(ifstate[i]) => Dropping(ifstate[j])
  /\ \A j \in 0 .. depth : Dropping(ifstate[j]) => \E i \in 1 .. j : ~src.groups[i].on

(* at[i]: how many of the groups 1 .. i are in the output.                  *)
Position(at) ==
  /\ at \in [0 .. depth -> Nat]
  /\ at[0] = 0
  /\ \A i \in 1 .. depth : at[i] = IF ifstate[i] \in Open THEN at[i - 1] + 1 ELSE at[i - 1]
  /\ \A i, j \in 0 .. depth : i <= j => at[i] <= at[j]
  /\ Len(dst.groups) = at[depth]
  /\ \A k \in 1 .. at[depth] : \E i \in 1 .. depth : ifstate[i] \in Open /\ at[i] = k

(* A group of the input beside its group of the output.                     *)
SameGroup(s, g, h) ==
  /\ s # "FALSE_MIDDLE" => (h.on <=> g.on)
  /\ s \in { "PASS_MIDDLE", "FALSE_MIDDLE" } => (h.taken <=> g.taken)
  /\ h.else <=> s \in { "TRUE_MIDDLE", "PASS_ELSE" }

OutputLevel(i, k) == SameGroup(ifstate[i], src.groups[i], dst.groups[k])

Beside(at) ==
  /\ Position(at)
  /\ \A i \in 1 .. depth : ifstate[i] \in Open => OutputLevel(i, at[i])

OutputInv ==
  Plainly =>
    /\ dst \in Preprocessor
    /\ ~dst.bad
    /\ \E at : Beside(at)

(* A line was written as the group it left on top would have it.            *)
Passes == (~Dropping(ifstate[depth])) # opts.complement

LineInv ==
  /\ status = "running" /\ ~opts.symlist /\ (line.type = "PLAIN" \/ (incomment /\ ~Unnoticed))
       => (IsWritten <=> Passes)
  /\ skewed \in BOOLEAN
  /\ skewed => ~IsWritten /\ opts.lnnum /\ ~opts.symlist /\ delcount = 1
  /\ status = "done" => depth = 0

IInv == TypeOK /\ SourceInv /\ OutputInv /\ LineInv

-----------------------------------------------------------------------------
(* trans_table, column by column: what the transition functions do that is  *)
(* not error().                                                             *)

If     == { "TRUEI", "FALSEI", "IF", "TRUE", "FALSE" }
Elif   == { "ELIF", "ELTRUE", "ELFALSE" }

LEMMA PlainColumn ==
  ASSUME NEW is \in Ifstate, NEW dodgy \in BOOLEAN
  PROVE  LET f == trans_table(is, "PLAIN", dodgy)
         IN /\ f.group = "same" /\ ~f.nest /\ f.text = "same"
            /\ f.keep = ~Dropping(is)
BY DEF trans_table, Dropping, drop, print, Keep, Discard

Does(f, keep, text, group, nest, ignore) ==
  f = [ keep |-> keep, text |-> text, group |-> group, nest |-> nest, ignore |-> ignore ]

LEMMA KeepDoes ==
  ASSUME NEW text, NEW group
  PROVE  Does(Keep(text, group), TRUE, text, group, FALSE, "same")
BY DEF Does, Keep

LEMMA DiscardDoes ==
  ASSUME NEW group
  PROVE  Does(Discard(group), FALSE, "same", group, FALSE, "same")
BY DEF Does, Discard

LEMMA OffDoes ==
  ASSUME NEW f, NEW keep, NEW text, NEW group, NEW nest, NEW ignore,
         Does(f, keep, text, group, nest, ignore)
  PROVE  Does(Off(f), keep, text, group, nest, "off")
BY DEF Does, Off

LEMMA OnDoes ==
  ASSUME NEW f, NEW keep, NEW text, NEW group, NEW nest, NEW ignore,
         Does(f, keep, text, group, nest, ignore)
  PROVE  Does(On(f), keep, text, group, nest, "on")
BY DEF Does, On

LEMMA NestedDoes ==
  ASSUME NEW f, NEW keep, NEW text, NEW group, NEW nest, NEW ignore,
         Does(f, keep, text, group, nest, ignore)
  PROVE  Does(Nested(f), keep, text, group, TRUE, ignore)
<1>1. ASSUME NEW v PROVE Does([f EXCEPT !.nest = v], keep, text, group, v, ignore)
  BY DEF Does
<1> QED
  BY <1>1, Zenon DEF Nested

(* What the transition functions amount to.                                 *)
LEMMA Effects ==
  /\ Does(Strue,  FALSE, "same",  "TRUE_PREFIX",   FALSE, "off")
  /\ Does(Sfalse, FALSE, "same",  "FALSE_PREFIX",  FALSE, "off")
  /\ Does(Selse,  FALSE, "same",  "TRUE_ELSE",     FALSE, "same")
  /\ Does(Pelif,  TRUE,  "same",  "PASS_MIDDLE",   FALSE, "off")
  /\ Does(Pelse,  TRUE,  "same",  "PASS_ELSE",     FALSE, "same")
  /\ Does(Dfalse, FALSE, "same",  "FALSE_TRAILER", FALSE, "off")
  /\ Does(Delif,  FALSE, "same",  "FALSE_MIDDLE",  FALSE, "off")
  /\ Does(Delse,  FALSE, "same",  "FALSE_ELSE",    FALSE, "same")
  /\ Does(Pendif, TRUE,  "same",  "unnest",        FALSE, "same")
  /\ Does(Dendif, FALSE, "same",  "unnest",        FALSE, "same")
  /\ Does(Mpass,  TRUE,  "if",    "PASS_MIDDLE",   FALSE, "off")
  /\ Does(Mtrue,  TRUE,  "else",  "TRUE_MIDDLE",   FALSE, "same")
  /\ Does(Melif,  TRUE,  "endif", "FALSE_TRAILER", FALSE, "same")
  /\ Does(Melse,  TRUE,  "endif", "FALSE_ELSE",    FALSE, "same")
  /\ Does(Error,  FALSE, "same",  "error",         FALSE, "same")
BY KeepDoes, DiscardDoes, OffDoes DEF Strue, Sfalse, Selse, Pelif, Pelse, Dfalse, Delif,
   Delse, Pendif, Dendif, Mpass, Mtrue, Melif, Melse, Error

LEMMA NestingEffects ==
  /\ Does(Fdrop,  FALSE, "same", "FALSE_TRAILER", TRUE, "off")
  /\ Does(Fpass,  TRUE,  "same", "PASS_MIDDLE",   TRUE, "off")
  /\ Does(Ftrue,  FALSE, "same", "TRUE_PREFIX",   TRUE, "off")
  /\ Does(Ffalse, FALSE, "same", "FALSE_PREFIX",  TRUE, "off")
  /\ Does(Idrop,  FALSE, "same", "FALSE_TRAILER", TRUE, "on")
  /\ Does(Itrue,  FALSE, "same", "TRUE_PREFIX",   TRUE, "on")
  /\ Does(Ifalse, FALSE, "same", "FALSE_PREFIX",  TRUE, "on")
  /\ opts.iocccok  => /\ Does(Oiffy, TRUE, "same", "PASS_MIDDLE", TRUE, "on")
                      /\ Does(Oif,   TRUE, "same", "PASS_MIDDLE", TRUE, "off")
                      /\ Does(Oelif, TRUE, "same", "PASS_MIDDLE", FALSE, "off")
  /\ ~opts.iocccok => Oiffy = Error /\ Oif = Error /\ Oelif = Error
BY Effects, OnDoes, NestedDoes DEF Fdrop, Fpass, Ftrue, Ffalse, Idrop, Itrue, Ifalse, Oiffy,
   Oif, Oelif

LEMMA KeepTyped ==
  ASSUME NEW f, NEW keep \in BOOLEAN, NEW text, NEW group, NEW nest, NEW ignore,
         Does(f, keep, text, group, nest, ignore)
  PROVE  f.keep \in BOOLEAN
BY Zenon DEF Does

LEMMA KeepsTyped ==
  ASSUME NEW f, f \in { Strue, Sfalse, Selse, Pelif, Oelif, Pelse, Dfalse, Delif, Delse, Pendif,
                        Dendif, Mpass, Mtrue, Melif, Melse, Error, Fdrop, Fpass, Ftrue,
                        Ffalse, Idrop, Itrue, Ifalse, Oiffy, Oif }
  PROVE  f.keep \in BOOLEAN
<1>1. \E text, group, nest, ignore :
        \/ Does(f, TRUE, text, group, nest, ignore)
        \/ Does(f, FALSE, text, group, nest, ignore)
  BY Effects, NestingEffects
<1> QED
  BY <1>1, KeepTyped

LEMMA RowEntries ==
  ASSUME NEW truei, NEW falsei, NEW if, NEW true, NEW false,
         NEW elif, NEW eltrue, NEW elfalse, NEW else, NEW endif
  PROVE  LET r == Row(truei, falsei, if, true, false, elif, eltrue, elfalse, else, endif)
         IN /\ r["TRUEI"] = truei /\ r["FALSEI"] = falsei /\ r["IF"] = if
            /\ r["TRUE"] = true /\ r["FALSE"] = false
            /\ r["ELIF"] = elif /\ r["ELTRUE"] = eltrue /\ r["ELFALSE"] = elfalse
            /\ r["ELSE"] = else /\ r["ENDIF"] = endif
BY DEF Row, Directive

LEMMA IfEntries ==
  ASSUME NEW is \in Ifstate, NEW type \in If, NEW dodgy \in BOOLEAN
  PROVE  LET f == trans_table(is, type, dodgy)
         IN /\ Dropping(is) => f \in { Idrop, Fdrop }
            /\ ~Dropping(is) =>
                 \/ f \in { Oiffy, Oif, Fpass }
                 \/ f \in { Itrue, Ftrue } /\ type \in { "TRUEI", "TRUE" } /\ ~dodgy
                 \/ f \in { Ifalse, Ffalse } /\ type \in { "FALSEI", "FALSE" } /\ ~dodgy
<1>1. trans_table(is, type, dodgy) = IF dodgy THEN DodgyLine(is)[type] ELSE OneLine(is)[type]
  BY DEF trans_table, If
<1> QED
  BY <1>1, RowEntries DEF OneLine, DodgyLine, Inner, DodgyInner, If, Ifstate, Dropping

LEMMA IfColumn ==
  ASSUME NEW is \in Ifstate, NEW dodgy \in BOOLEAN, NEW type \in If,
         trans_table(is, type, dodgy).group # "error"
  PROVE  LET f == trans_table(is, type, dodgy)
         IN /\ f.nest /\ f.text = "same" /\ f.ignore \in { "on", "off" } /\ f.keep \in BOOLEAN
            /\ \/ Dropping(is) /\ ~f.keep /\ f.group = "FALSE_TRAILER"
               \/ ~Dropping(is) /\ f.keep /\ f.group = "PASS_MIDDLE"
               \/ /\ ~Dropping(is) /\ ~f.keep /\ ~dodgy
                  /\ \/ f.group = "TRUE_PREFIX" /\ type \in { "TRUEI", "TRUE" }
                     \/ f.group = "FALSE_PREFIX" /\ type \in { "FALSEI", "FALSE" }
<1>1. ASSUME NEW f, f \in { Idrop, Fdrop }
      PROVE  f.nest /\ f.text = "same" /\ f.ignore \in { "on", "off" } /\ ~f.keep
             /\ f.group = "FALSE_TRAILER"
  BY <1>1, NestingEffects DEF Does
<1>2. ASSUME NEW f, f \in { Oiffy, Oif, Fpass }, f.group # "error"
      PROVE  f.nest /\ f.text = "same" /\ f.ignore \in { "on", "off" } /\ f.keep
             /\ f.group = "PASS_MIDDLE"
  BY <1>2, Effects, NestingEffects DEF Does
<1>3. ASSUME NEW f, f \in { Itrue, Ftrue }
      PROVE  f.nest /\ f.text = "same" /\ f.ignore \in { "on", "off" } /\ ~f.keep
             /\ f.group = "TRUE_PREFIX"
  BY <1>3, NestingEffects DEF Does
<1>4. ASSUME NEW f, f \in { Ifalse, Ffalse }
      PROVE  f.nest /\ f.text = "same" /\ f.ignore \in { "on", "off" } /\ ~f.keep
             /\ f.group = "FALSE_PREFIX"
  BY <1>4, NestingEffects DEF Does
<1> QED
  BY <1>1, <1>2, <1>3, <1>4, IfEntries, KeepsTyped

LEMMA ElifEntries ==
  ASSUME NEW is \in Ifstate, NEW type \in Elif, NEW dodgy \in BOOLEAN
  PROVE  LET f == trans_table(is, type, dodgy)
         IN \/ f = Error
            \/ /\ is = "FALSE_PREFIX"
               /\ \/ f = Mpass /\ type = "ELIF"
                  \/ f = Strue /\ type = "ELTRUE" /\ ~dodgy
                  \/ f = Sfalse /\ type = "ELFALSE" /\ ~dodgy
            \/ /\ is \in { "TRUE_PREFIX", "FALSE_TRAILER" } /\ (is = "TRUE_PREFIX" => ~dodgy)
               /\ f = Dfalse
            \/ /\ is \in { "PASS_MIDDLE", "FALSE_MIDDLE" } /\ (is = "FALSE_MIDDLE" => ~dodgy)
               /\ \/ f \in { Pelif, Oelif }
                  \/ f = Mtrue /\ type = "ELTRUE" /\ ~dodgy
                  \/ f = Delif /\ type = "ELFALSE" /\ ~dodgy
            \/ is = "TRUE_MIDDLE" /\ ~dodgy /\ f = Melif
<1>1. trans_table(is, type, dodgy) = IF dodgy THEN DodgyLine(is)[type] ELSE OneLine(is)[type]
  BY DEF trans_table, Elif
<1> QED
  BY <1>1, RowEntries DEF OneLine, DodgyLine, Inner, DodgyInner, Elif, Ifstate, Dropping

LEMMA ElifColumn ==
  ASSUME NEW is \in Ifstate, NEW dodgy \in BOOLEAN, NEW type \in Elif,
         trans_table(is, type, dodgy).group # "error"
  PROVE  LET f == trans_table(is, type, dodgy)
         IN /\ ~f.nest /\ f.ignore \in { "off", "same" } /\ f.keep \in BOOLEAN
            /\ \/ /\ is = "FALSE_PREFIX"
                  /\ \/ f.keep /\ f.text = "if" /\ f.group = "PASS_MIDDLE" /\ type = "ELIF"
                     \/ ~f.keep /\ f.text = "same" /\ f.group = "TRUE_PREFIX" /\ type = "ELTRUE" /\ ~dodgy
                     \/ ~f.keep /\ f.text = "same" /\ f.group = "FALSE_PREFIX" /\ type = "ELFALSE" /\ ~dodgy
               \/ /\ is \in { "TRUE_PREFIX", "FALSE_TRAILER" } /\ (is = "TRUE_PREFIX" => ~dodgy)
                  /\ ~f.keep /\ f.text = "same" /\ f.group = "FALSE_TRAILER"
               \/ /\ is \in { "PASS_MIDDLE", "FALSE_MIDDLE" } /\ (is = "FALSE_MIDDLE" => ~dodgy)
                  /\ \/ f.keep /\ f.text = "same" /\ f.group = "PASS_MIDDLE"
                     \/ f.keep /\ f.text = "else" /\ f.group = "TRUE_MIDDLE" /\ type = "ELTRUE" /\ ~dodgy
                     \/ ~f.keep /\ f.text = "same" /\ f.group = "FALSE_MIDDLE" /\ type = "ELFALSE" /\ ~dodgy
               \/ /\ is = "TRUE_MIDDLE" /\ ~dodgy
                  /\ f.keep /\ f.text = "endif" /\ f.group = "FALSE_TRAILER"
<1> DEFINE f == trans_table(is, type, dodgy)
<1>1. /\ f = Strue  => ~f.nest /\ f.ignore = "off" /\ ~f.keep /\ f.text = "same" /\ f.group = "TRUE_PREFIX"
      /\ f = Sfalse => ~f.nest /\ f.ignore = "off" /\ ~f.keep /\ f.text = "same" /\ f.group = "FALSE_PREFIX"
      /\ f = Dfalse => ~f.nest /\ f.ignore = "off" /\ ~f.keep /\ f.text = "same" /\ f.group = "FALSE_TRAILER"
      /\ f = Delif  => ~f.nest /\ f.ignore = "off" /\ ~f.keep /\ f.text = "same" /\ f.group = "FALSE_MIDDLE"
  BY Effects DEF Does
<1>2. /\ f = Mpass => ~f.nest /\ f.ignore = "off" /\ f.keep /\ f.text = "if" /\ f.group = "PASS_MIDDLE"
      /\ f = Mtrue => ~f.nest /\ f.ignore = "same" /\ f.keep /\ f.text = "else" /\ f.group = "TRUE_MIDDLE"
      /\ f = Melif => ~f.nest /\ f.ignore = "same" /\ f.keep /\ f.text = "endif" /\ f.group = "FALSE_TRAILER"
      /\ f \in { Pelif, Oelif } =>
           ~f.nest /\ f.ignore = "off" /\ f.keep /\ f.text = "same" /\ f.group = "PASS_MIDDLE"
      /\ f # Error
  BY Effects, NestingEffects DEF Does
<1> QED
  BY <1>1, <1>2, ElifEntries, KeepsTyped

LEMMA ElseColumn ==
  ASSUME NEW is \in Ifstate, NEW dodgy \in BOOLEAN,
         trans_table(is, "ELSE", dodgy).group # "error"
  PROVE  LET f == trans_table(is, "ELSE", dodgy)
         IN /\ ~f.nest /\ f.ignore = "same" /\ f.keep \in BOOLEAN
            /\ \/ is = "FALSE_PREFIX" /\ ~dodgy /\ ~f.keep /\ f.text = "same" /\ f.group = "TRUE_ELSE"
               \/ /\ is \in { "TRUE_PREFIX", "FALSE_TRAILER" } /\ (is = "TRUE_PREFIX" => ~dodgy)
                  /\ ~f.keep /\ f.text = "same" /\ f.group = "FALSE_ELSE"
               \/ /\ is \in { "PASS_MIDDLE", "FALSE_MIDDLE" } /\ (is = "FALSE_MIDDLE" => ~dodgy)
                  /\ f.keep /\ f.text = "same" /\ f.group = "PASS_ELSE"
               \/ is = "TRUE_MIDDLE" /\ ~dodgy /\ f.keep /\ f.text = "endif" /\ f.group = "FALSE_ELSE"
<1> DEFINE f == trans_table(is, "ELSE", dodgy)
<1>1. f = IF dodgy THEN DodgyLine(is)["ELSE"] ELSE OneLine(is)["ELSE"]
  BY DEF trans_table
<1>2. \/ f = Error
      \/ is = "FALSE_PREFIX" /\ ~dodgy /\ f = Selse
      \/ is \in { "TRUE_PREFIX", "FALSE_TRAILER" } /\ (is = "TRUE_PREFIX" => ~dodgy) /\ f = Delse
      \/ is \in { "PASS_MIDDLE", "FALSE_MIDDLE" } /\ (is = "FALSE_MIDDLE" => ~dodgy) /\ f = Pelse
      \/ is = "TRUE_MIDDLE" /\ ~dodgy /\ f = Melse
  BY <1>1, RowEntries DEF OneLine, DodgyLine, Inner, DodgyInner, Ifstate, Dropping
<1>3. /\ f = Selse => ~f.nest /\ f.ignore = "same" /\ ~f.keep /\ f.text = "same" /\ f.group = "TRUE_ELSE"
      /\ f = Delse => ~f.nest /\ f.ignore = "same" /\ ~f.keep /\ f.text = "same" /\ f.group = "FALSE_ELSE"
      /\ f = Pelse => ~f.nest /\ f.ignore = "same" /\ f.keep /\ f.text = "same" /\ f.group = "PASS_ELSE"
      /\ f = Melse => ~f.nest /\ f.ignore = "same" /\ f.keep /\ f.text = "endif" /\ f.group = "FALSE_ELSE"
      /\ f # Error
  BY Effects DEF Does
<1> QED
  BY <1>2, <1>3, KeepsTyped

LEMMA EndifColumn ==
  ASSUME NEW is \in Ifstate, NEW dodgy \in BOOLEAN,
         trans_table(is, "ENDIF", dodgy).group # "error"
  PROVE  LET f == trans_table(is, "ENDIF", dodgy)
         IN /\ ~f.nest /\ f.text = "same" /\ f.group = "unnest" /\ is # "OUTSIDE"
            /\ f.keep \in BOOLEAN
            /\ f.keep <=> is \in Open
            /\ dodgy => is \in { "PASS_MIDDLE", "TRUE_MIDDLE", "PASS_ELSE" }
<1> DEFINE f == trans_table(is, "ENDIF", dodgy)
<1>1. f = IF dodgy THEN DodgyLine(is)["ENDIF"] ELSE OneLine(is)["ENDIF"]
  BY DEF trans_table
<1>2. \/ f = Error
      \/ is \in Open /\ f = Pendif /\ (dodgy => is # "FALSE_MIDDLE")
      \/ is \notin Open /\ is # "OUTSIDE" /\ f = Dendif /\ ~dodgy
  BY <1>1, RowEntries DEF OneLine, DodgyLine, Inner, DodgyInner, Ifstate, Dropping, Eendif, Open
<1>3. /\ f = Pendif => ~f.nest /\ f.text = "same" /\ f.group = "unnest" /\ f.keep
      /\ f = Dendif => ~f.nest /\ f.text = "same" /\ f.group = "unnest" /\ ~f.keep
      /\ f # Error
  BY Effects DEF Does
<1> QED
  BY <1>2, <1>3, KeepsTyped DEF Open

-----------------------------------------------------------------------------
(* What a preprocessor does with a directive that may come where it comes.  *)

LEMMA ReadNone ==
  ASSUME NEW pp, NEW truth
  PROVE  ReadDirective(pp, "none", truth) = pp
BY DEF ReadDirective

(* An #if adds a group.                                                     *)
Opened(q, pp, truth) ==
  LET n == Len(pp.groups)
  IN /\ q \in Preprocessor /\ (q.bad <=> pp.bad) /\ Len(q.groups) = n + 1
     /\ \A i \in 1 .. n : q.groups[i] = pp.groups[i]
     /\ q.groups[n + 1].on <=> truth
     /\ q.groups[n + 1].taken <=> truth
     /\ ~q.groups[n + 1].else

LEMMA ReadIf ==
  ASSUME NEW pp \in Preprocessor, NEW truth \in BOOLEAN
  PROVE  Opened(ReadDirective(pp, "if", truth), pp, truth)
<1> DEFINE g == [ on |-> truth, taken |-> truth, else |-> FALSE ]
<1>1. ReadDirective(pp, "if", truth) = [pp EXCEPT !.groups = Append(@, g)]
  BY DEF ReadDirective
<1>2. [pp EXCEPT !.groups = Append(@, g)] = [ groups |-> Append(pp.groups, g), bad |-> pp.bad ]
  BY DEF Preprocessor
<1>3. /\ g \in PPGroup /\ (g.on <=> truth) /\ (g.taken <=> truth) /\ ~g.else
      /\ pp.groups \in Seq(PPGroup)
  BY DEF PPGroup, Preprocessor
<1> HIDE DEF g
<1>4. LET gs == Append(pp.groups, g)
          n  == Len(pp.groups)
      IN /\ gs \in Seq(PPGroup) /\ Len(gs) = n + 1
         /\ \A i \in 1 .. n : gs[i] = pp.groups[i]
         /\ gs[n + 1] = g
  BY <1>3
<1>5. ReadDirective(pp, "if", truth) = [ groups |-> Append(pp.groups, g), bad |-> pp.bad ]
  BY <1>1, <1>2, Zenon
<1> DEFINE q == [ groups |-> Append(pp.groups, g), bad |-> pp.bad ]
<1>6. q \in Preprocessor /\ (q.bad <=> pp.bad) /\ q.groups = Append(pp.groups, g)
  BY <1>4 DEF Preprocessor
<1> HIDE DEF q
<1>7. /\ q \in Preprocessor /\ (q.bad <=> pp.bad) /\ Len(q.groups) = Len(pp.groups) + 1
      /\ \A i \in 1 .. Len(pp.groups) : q.groups[i] = pp.groups[i]
      /\ q.groups[Len(pp.groups) + 1] = g
  BY <1>4, <1>6
<1> QED
  BY <1>3, <1>5, <1>7, Zenon DEF q, Opened

(* An #elif or #else changes the innermost group.                           *)
Branch(q, pp, on, taken, else) ==
  LET n == Len(pp.groups)
  IN /\ q \in Preprocessor /\ (q.bad <=> pp.bad) /\ Len(q.groups) = n
     /\ \A i \in 1 .. n - 1 : q.groups[i] = pp.groups[i]
     /\ q.groups[n].on <=> on
     /\ q.groups[n].taken <=> taken
     /\ q.groups[n].else <=> else

LEMMA TopReplaced ==
  ASSUME NEW pp \in Preprocessor, NEW g \in PPGroup, Len(pp.groups) > 0
  PROVE  Branch([pp EXCEPT !.groups[Len(pp.groups)] = g], pp, g.on, g.taken, g.else)
<1> DEFINE n == Len(pp.groups)
           gs == [pp.groups EXCEPT ![n] = g]
<1>1. [pp EXCEPT !.groups[n] = g] = [ groups |-> gs, bad |-> pp.bad ]
  BY DEF Preprocessor
<1>2. pp.groups \in Seq(PPGroup) /\ n \in Nat
  BY DEF Preprocessor
<1>3. gs \in Seq(PPGroup) /\ Len(gs) = n /\ gs[n] = g /\ \A i \in 1 .. n - 1 : gs[i] = pp.groups[i]
  BY <1>2
<1> QED
  BY <1>1, <1>3 DEF Branch, Preprocessor

LEMMA ReadElif ==
  ASSUME NEW pp \in Preprocessor, NEW truth \in BOOLEAN, NEW g, g = pp.groups[Len(pp.groups)],
         Len(pp.groups) > 0, ~g.else
  PROVE  Branch(ReadDirective(pp, "elif", truth), pp, truth /\ ~g.taken, truth \/ g.taken, FALSE)
<1> DEFINE h == [g EXCEPT !.on = truth /\ ~g.taken, !.taken = truth \/ g.taken]
<1>1. g \in PPGroup
  BY DEF Preprocessor
<1>2. ReadDirective(pp, "elif", truth) = [pp EXCEPT !.groups[Len(pp.groups)] = h]
  BY DEF ReadDirective
<1>3. h \in PPGroup /\ (h.on <=> truth /\ ~g.taken) /\ (h.taken <=> truth \/ g.taken) /\ ~h.else
  BY <1>1 DEF PPGroup
<1> HIDE DEF h
<1>4. Branch(ReadDirective(pp, "elif", truth), pp, h.on, h.taken, h.else)
  BY <1>2, <1>3, TopReplaced
<1> QED
  BY <1>3, <1>4 DEF Branch

LEMMA ReadElse ==
  ASSUME NEW pp \in Preprocessor, NEW truth \in BOOLEAN, NEW g, g = pp.groups[Len(pp.groups)],
         Len(pp.groups) > 0, ~g.else
  PROVE  Branch(ReadDirective(pp, "else", truth), pp, ~g.taken, TRUE, TRUE)
<1> DEFINE h == [ on |-> ~g.taken, taken |-> TRUE, else |-> TRUE ]
<1>1. g \in PPGroup
  BY DEF Preprocessor
<1>2. ReadDirective(pp, "else", truth) = [pp EXCEPT !.groups[Len(pp.groups)] = h]
  BY DEF ReadDirective
<1>3. h \in PPGroup /\ (h.on <=> ~g.taken) /\ h.taken /\ h.else
  BY <1>1 DEF PPGroup
<1>4. Branch(ReadDirective(pp, "else", truth), pp, h.on, h.taken, h.else)
  BY <1>2, <1>3, TopReplaced
<1> QED
  BY <1>3, <1>4 DEF Branch

(* An #endif ends it.                                                       *)
Closed(q, pp) ==
  LET n == Len(pp.groups)
  IN /\ q \in Preprocessor /\ (q.bad <=> pp.bad) /\ Len(q.groups) = n - 1
     /\ \A i \in 1 .. n - 1 : q.groups[i] = pp.groups[i]

LEMMA ReadEndif ==
  ASSUME NEW pp \in Preprocessor, NEW truth \in BOOLEAN, Len(pp.groups) > 0
  PROVE  Closed(ReadDirective(pp, "endif", truth), pp)
<1> DEFINE n == Len(pp.groups)
<1>1. ReadDirective(pp, "endif", truth) = [pp EXCEPT !.groups = SubSeq(@, 1, n - 1)]
  BY DEF ReadDirective
<1>2. [pp EXCEPT !.groups = SubSeq(@, 1, n - 1)] = [ groups |-> SubSeq(pp.groups, 1, n - 1), bad |-> pp.bad ]
  BY DEF Preprocessor
<1>3. pp.groups \in Seq(PPGroup) /\ n \in Nat
  BY DEF Preprocessor
<1>4. LET gs == SubSeq(pp.groups, 1, n - 1)
      IN /\ gs \in Seq(PPGroup) /\ Len(gs) = n - 1
         /\ \A i \in 1 .. n - 1 : gs[i] = pp.groups[i]
  BY <1>3
<1>5. ReadDirective(pp, "endif", truth) = [ groups |-> SubSeq(pp.groups, 1, n - 1), bad |-> pp.bad ]
  BY <1>1, <1>2, Zenon
<1> DEFINE q == [ groups |-> SubSeq(pp.groups, 1, n - 1), bad |-> pp.bad ]
<1>6. q \in Preprocessor /\ (q.bad <=> pp.bad) /\ q.groups = SubSeq(pp.groups, 1, n - 1)
  BY <1>4 DEF Preprocessor
<1> HIDE DEF q
<1>7. Closed(q, pp)
  BY <1>4, <1>6 DEF Closed
<1> QED
  BY <1>5, <1>7, Zenon DEF q

-----------------------------------------------------------------------------
(* How the two preprocessors follow the stack of groups.  d is the depth    *)
(* after the step; below it nothing changes.                                *)

Below(d) ==
  /\ \A i \in 0 .. d - 1 : ifstate'[i] = ifstate[i]
  /\ \A i \in 1 .. d - 1 : src'.groups[i] = src.groups[i]

LEMMA SourceTop ==
  ASSUME TypeOK, SourceInv, NEW d \in { depth, depth + 1 }, d > 0, depth' = d,
         Below(d), src' \in Preprocessor, ~src'.bad, Len(src'.groups) = d,
         SourceLevel(d)', ifstate'[d] \in Ifstate
  PROVE  SourceInv'
<1>1. depth \in Nat /\ d \in Nat
  BY DepthAssumption DEF TypeOK
<1>2. ASSUME NEW i \in 1 .. d - 1 PROVE SourceLevel(i)'
  <2>1. SourceLevel(i) /\ ifstate'[i] = ifstate[i] /\ ifstate'[i - 1] = ifstate[i - 1]
        /\ src'.groups[i] = src.groups[i]
    BY <1>1, <1>2 DEF SourceInv, Below
  <2> QED
    BY <2>1 DEF SourceLevel, Buried, Dropping
<1>3. ASSUME NEW i \in 0 .. d, NEW j \in 0 .. d, i <= j, Dropping(ifstate'[i])
      PROVE  Dropping(ifstate'[j])
  <2>1. CASE j < d
    BY <1>1, <1>3, <2>1 DEF SourceInv, Below
  <2>2. CASE j = d /\ i < d
    <3>1. Dropping(ifstate'[d - 1])
      BY <1>1, <1>3, <2>2 DEF SourceInv, Below
    <3>2. ifstate'[d] \in { "FALSE_TRAILER", "FALSE_ELSE" }
      BY <3>1 DEF SourceLevel, Buried
    <3> QED
      BY <2>2, <3>2 DEF Dropping
  <2>3. CASE i = j
    BY <1>3, <2>3
  <2> QED
    BY <1>1, <1>3, <2>1, <2>2, <2>3
<1>4. ASSUME NEW j \in 0 .. d, Dropping(ifstate'[j])
      PROVE  \E i \in 1 .. j : ~src'.groups[i].on
  <2>1. ASSUME NEW k \in 0 .. d - 1, Dropping(ifstate'[k])
        PROVE  \E i \in 1 .. k : ~src'.groups[i].on
    <3>1. Dropping(ifstate[k]) /\ k \in 0 .. depth
      BY <1>1, <2>1 DEF Below
    <3>2. PICK i \in 1 .. k : ~src.groups[i].on
      BY <3>1 DEF SourceInv
    <3> QED
      BY <1>1, <2>1, <3>2 DEF Below
  <2>2. CASE j < d
    BY <1>1, <1>4, <2>1, <2>2
  <2>3. CASE j = d /\ Dropping(ifstate'[d - 1])
    BY <1>1, <2>1, <2>3
  <2>4. CASE j = d /\ ~Dropping(ifstate'[d - 1])
    BY <1>1, <1>4, <2>4 DEF SourceLevel, Buried
  <2> QED
    BY <1>1, <2>2, <2>3, <2>4
<1>5. \A i \in 1 .. d : SourceLevel(i)'
  BY <1>1, <1>2
<1> QED
  BY <1>3, <1>4, <1>5 DEF SourceInv

LEMMA SourcePop ==
  ASSUME TypeOK, SourceInv, depth > 0, depth' = depth - 1,
         \A i \in 0 .. depth - 1 : ifstate'[i] = ifstate[i],
         src' \in Preprocessor, ~src'.bad, Len(src'.groups) = depth - 1,
         \A i \in 1 .. depth - 1 : src'.groups[i] = src.groups[i]
  PROVE  SourceInv'
<1>1. depth \in Nat
  BY DepthAssumption DEF TypeOK
<1>2. ASSUME NEW i \in 1 .. depth - 1 PROVE SourceLevel(i)'
  <2>1. i \in 1 .. depth /\ i \in 0 .. depth - 1 /\ i - 1 \in 0 .. depth - 1
    BY <1>1, <1>2
  <2>2. SourceLevel(i)
    BY <2>1 DEF SourceInv
  <2>3. ifstate'[i] = ifstate[i] /\ ifstate'[i - 1] = ifstate[i - 1] /\ src'.groups[i] = src.groups[i]
    BY <2>1, <1>2
  <2> QED
    BY <2>2, <2>3 DEF SourceLevel, Buried, Dropping
<1>3. \A i, j \in 0 .. depth - 1 : i <= j /\ Dropping(ifstate'[i]) => Dropping(ifstate'[j])
  BY <1>1 DEF SourceInv
<1>4. ASSUME NEW j \in 0 .. depth - 1, Dropping(ifstate'[j])
      PROVE  \E i \in 1 .. j : ~src'.groups[i].on
  <2>1. PICK i \in 1 .. j : ~src.groups[i].on
    BY <1>1, <1>4 DEF SourceInv
  <2> QED
    BY <1>1, <2>1
<1> QED
  BY <1>2, <1>3, <1>4 DEF SourceInv

(* k: the groups of the output that are below the innermost of the input.   *)
LEMMA OutputTop ==
  ASSUME TypeOK, NEW at, Beside(at), NEW d \in { depth, depth + 1 }, d > 0, depth' = d,
         Below(d), NEW k, k = at[d - 1],
         NEW top, top = (IF ifstate'[d] \in Open THEN k + 1 ELSE k), Len(dst'.groups) = top,
         \A i \in 1 .. k : dst'.groups[i] = dst.groups[i],
         ifstate'[d] \in Open => OutputLevel(d, k + 1)'
  PROVE  \E new : Beside(new)'
<1> DEFINE new == [ i \in 0 .. d |-> IF i = d THEN top ELSE at[i] ]
<1>0. depth \in Nat /\ d \in Nat
  BY DepthAssumption DEF TypeOK
<1>1. depth \in Nat /\ d \in Nat /\ k \in Nat /\ \A i \in 0 .. d - 1 : at[i] \in Nat /\ at[i] <= k
  <2>1. d - 1 \in 0 .. depth /\ 0 .. d - 1 \subseteq 0 .. depth
    BY <1>0
  <2>2. /\ \A i \in 0 .. depth : at[i] \in Nat
        /\ \A i, j \in 0 .. depth : i <= j => at[i] <= at[j]
    BY DEF Beside, Position
  <2>3. \A i \in 0 .. d - 1 : i <= d - 1
    BY <1>0
  <2> QED
    BY <1>0, <2>1, <2>2, <2>3
<1>2. /\ new \in [ 0 .. d -> Nat ] /\ new[0] = 0
      /\ new[d] = (IF ifstate'[d] \in Open THEN k + 1 ELSE k)
      /\ \A i \in 0 .. d - 1 : new[i] = at[i]
  BY <1>1 DEF Beside, Position
<1> HIDE DEF new
<1>3. ASSUME NEW i \in 1 .. d
      PROVE  new[i] = IF ifstate'[i] \in Open THEN new[i - 1] + 1 ELSE new[i - 1]
  <2>1. i - 1 \in 0 .. d - 1 /\ new[i - 1] = at[i - 1]
    BY <1>1, <1>2
  <2>2. CASE i = d
    BY <1>2, <2>1, <2>2
  <2>3. CASE i # d
    <3>1. i \in 0 .. d - 1 /\ i \in 1 .. depth
      BY <1>1, <2>3
    <3>2. new[i] = at[i] /\ ifstate'[i] = ifstate[i]
      BY <1>2, <3>1 DEF Below
    <3>3. at[i] = IF ifstate[i] \in Open THEN at[i - 1] + 1 ELSE at[i - 1]
      BY <3>1 DEF Beside, Position
    <3> QED
      BY <2>1, <3>2, <3>3
  <2> QED
    BY <2>2, <2>3
<1>4. ASSUME NEW i \in 0 .. d, NEW j \in 0 .. d, i <= j
      PROVE  new[i] <= new[j]
  <2>1. CASE j = d /\ i = d
    BY <1>2, <1>1, <2>1
  <2>2. CASE j = d /\ i # d
    BY <1>1, <1>2, <2>2
  <2>3. CASE j # d
    <3>1. i \in 0 .. d - 1 /\ j \in 0 .. d - 1 /\ i \in 0 .. depth /\ j \in 0 .. depth
      BY <1>1, <1>4, <2>3
    <3>2. at[i] <= at[j]
      BY <1>4, <3>1 DEF Beside, Position
    <3> QED
      BY <1>2, <3>1, <3>2
  <2> QED
    BY <2>1, <2>2, <2>3
<1>5. ASSUME NEW m \in 1 .. new[d]
      PROVE  \E i \in 1 .. d : ifstate'[i] \in Open /\ new[i] = m
  <2>1. CASE m \in 1 .. k
    <3>1. PICK i \in 1 .. depth : ifstate[i] \in Open /\ at[i] = m
      BY <1>1, <2>1 DEF Beside, Position, TypeOK
    <3>2. i \in 1 .. d - 1
      <4>1. CASE d = depth + 1
        BY <1>1, <3>1, <4>1
      <4>2. CASE d = depth /\ i = depth
        <5>1. at[i] = k + 1
          BY <1>1, <3>1, <4>2 DEF Beside, Position
        <5> QED
          BY <1>1, <2>1, <3>1, <5>1
      <4> QED
        BY <1>1, <3>1, <4>1, <4>2
    <3>3. i \in 0 .. d - 1 /\ i \in 1 .. d
      BY <1>1, <3>2
    <3>4. ifstate'[i] \in Open /\ new[i] = m
      BY <1>2, <3>1, <3>3 DEF Below
    <3> QED
      BY <3>3, <3>4
  <2>2. CASE m \notin 1 .. k
    BY <1>1, <1>2, <1>5, <2>2
  <2> QED
    BY <2>1, <2>2
<1>6. ASSUME NEW i \in 1 .. d, ifstate'[i] \in Open
      PROVE  OutputLevel(i, new[i])'
  <2>1. CASE i = d
    <3>1. new[i] = k + 1 /\ OutputLevel(d, k + 1)'
      BY <1>2, <1>6, <2>1
    <3> QED
      BY <2>1, <3>1 DEF OutputLevel, SameGroup
  <2>2. CASE i # d
    <3>1. i \in 1 .. d - 1 /\ ifstate'[i] = ifstate[i] /\ src'.groups[i] = src.groups[i]
      BY <1>1, <2>2 DEF Below
    <3>2. at[i] \in 1 .. k /\ new[i] = at[i]
      <4>1. at[i] = at[i - 1] + 1 /\ at[i - 1] \in Nat
        BY <1>1, <1>6, <3>1 DEF Beside, Position
      <4> QED
        BY <1>1, <1>2, <3>1, <4>1
    <3>3. OutputLevel(i, at[i])
      BY <1>1, <1>6, <3>1 DEF Beside
    <3>4. dst'.groups[new[i]] = dst.groups[at[i]]
      BY <3>2
    <3> QED
      BY <3>1, <3>3, <3>4 DEF OutputLevel, SameGroup
  <2> QED
    BY <2>1, <2>2
<1>7. Len(dst'.groups) = new[d]
  BY <1>2
<1>8. Position(new)'
  <2>1. depth' = d
    OBVIOUS
  <2> QED
    BY <2>1, <1>2, <1>3, <1>4, <1>5, <1>7, Zenon DEF Position
<1>9. Beside(new)'
  BY <1>6, <1>8 DEF Beside
<1> QED
  BY <1>9

(* The end of a group: the output loses its group if it has one.            *)
LEMMA OutputPop ==
  ASSUME TypeOK, NEW at, Beside(at), depth > 0, depth' = depth - 1,
         \A i \in 0 .. depth - 1 : ifstate'[i] = ifstate[i],
         \A i \in 1 .. depth - 1 : src'.groups[i] = src.groups[i],
         NEW k, k = at[depth - 1], Len(dst'.groups) = k,
         \A i \in 1 .. k : dst'.groups[i] = dst.groups[i]
  PROVE  \E new : Beside(new)'
<1> PICK d \in Nat : d = depth - 1
  BY DepthAssumption DEF TypeOK
<1> DEFINE new == [ i \in 0 .. d |-> at[i] ]
<1>1. /\ depth = d + 1 /\ depth' = d /\ k = at[d] /\ k \in Nat
      /\ \A i \in 0 .. d : at[i] \in Nat /\ at[i] <= k
  BY DepthAssumption DEF TypeOK, Beside, Position
<1>2. new \in [ 0 .. d -> Nat ] /\ new[0] = 0 /\ \A i \in 0 .. d : new[i] = at[i]
  BY <1>1 DEF Beside, Position
<1> HIDE DEF new
<1>3. ASSUME NEW i \in 1 .. d
      PROVE  /\ ifstate'[i] = ifstate[i] /\ src'.groups[i] = src.groups[i]
             /\ at[i] = IF ifstate[i] \in Open THEN at[i - 1] + 1 ELSE at[i - 1]
             /\ i - 1 \in 0 .. d /\ i \in 0 .. d
  BY <1>1 DEF Beside, Position
<1>4. \A i \in 1 .. d : new[i] = IF ifstate'[i] \in Open THEN new[i - 1] + 1 ELSE new[i - 1]
  BY <1>2, <1>3
<1>5. \A i, j \in 0 .. d : i <= j => new[i] <= new[j]
  BY <1>1, <1>2 DEF Beside, Position
<1>6. ASSUME NEW m \in 1 .. new[d]
      PROVE  \E i \in 1 .. d : ifstate'[i] \in Open /\ new[i] = m
  <2>1. m \in 1 .. at[depth] /\ m <= k
    <3>1. at[depth] \in Nat /\ at[d] <= at[depth]
      BY <1>1 DEF Beside, Position
    <3> QED
      BY <1>1, <1>2, <3>1
  <2>2. PICK i \in 1 .. depth : ifstate[i] \in Open /\ at[i] = m
    BY <2>1 DEF Beside, Position
  <2>3. i # depth
    <3>1. ifstate[depth] \in Open => at[depth] = k + 1
      BY <1>1 DEF Beside, Position
    <3> QED
      BY <1>1, <2>1, <2>2, <3>1
  <2>4. i \in 1 .. d
    BY <1>1, <2>2, <2>3
  <2>5. ifstate'[i] \in Open /\ new[i] = m
    BY <1>2, <1>3, <2>2, <2>4
  <2> QED
    BY <2>4, <2>5
<1>7. ASSUME NEW i \in 1 .. d, ifstate'[i] \in Open
      PROVE  OutputLevel(i, new[i])'
  <2>1. at[i] \in 1 .. k /\ new[i] = at[i]
    <3>1. i - 1 \in 0 .. d /\ i \in 0 .. d /\ at[i] = at[i - 1] + 1
      BY <1>3, <1>7
    <3> QED
      BY <1>1, <1>2, <3>1
  <2>2. OutputLevel(i, at[i]) /\ ifstate'[i] = ifstate[i] /\ src'.groups[i] = src.groups[i]
    BY <1>1, <1>3, <1>7 DEF Beside
  <2>3. dst'.groups[new[i]] = dst.groups[at[i]]
    BY <2>1
  <2> QED
    BY <2>2, <2>3 DEF OutputLevel, SameGroup
<1>8. Len(dst'.groups) = new[d] /\ depth' = d
  BY <1>1, <1>2
<1>9. Position(new)'
  BY <1>2, <1>4, <1>5, <1>6, <1>8, Zenon DEF Position
<1>10. Beside(new)'
  BY <1>7, <1>8, <1>9 DEF Beside
<1> QED
  BY <1>10

-----------------------------------------------------------------------------
(* What a step does, where the model says it by cases.                      *)

LEMMA Types ==
  /\ \A type \in If : DirectiveOf(type) = "if"
  /\ \A type \in Elif : DirectiveOf(type) = "elif"
  /\ DirectiveOf("ELSE") = "else" /\ DirectiveOf("ENDIF") = "endif" /\ DirectiveOf("PLAIN") = "none"
  /\ \A type \in { "TRUEI", "TRUE", "ELTRUE" } : Truths(type) = {TRUE}
  /\ \A type \in { "FALSEI", "FALSE", "ELFALSE" } : Truths(type) = {FALSE}
  /\ \A type \in If \cup Elif \cup { "ELSE", "ENDIF", "PLAIN" } : Truths(type) \subseteq BOOLEAN
BY DEF DirectiveOf, Truths, If, Elif

LEMMA WrittenTexts ==
  ASSUME NEW type
  PROVE  /\ \A text \in { "no", "blank" } : WrittenDirective(type, text) = "none"
         /\ WrittenDirective(type, "same") = DirectiveOf(type)
         /\ \A text \in { "if", "else", "endif" } : WrittenDirective(type, text) = text
BY Zenon DEF WrittenDirective

LEMMA GroupKept ==
  ASSUME NEW f, f.group = "same", Group(f)
  PROVE  UNCHANGED <<depth, ifstate, ignoring>>
BY Zenon DEF Group

LEMMA GroupLeft ==
  ASSUME NEW f, f.group = "unnest", Group(f)
  PROVE  /\ depth' = depth - 1
         /\ ifstate' = [e \in 0 .. depth - 1 |-> ifstate[e]]
         /\ ignoring' = [e \in 0 .. depth - 1 |-> ignoring[e]]
BY Zenon DEF Group

LEMMA GroupEntered ==
  ASSUME NEW f, f.group \notin { "same", "unnest" }, Group(f),
         NEW d, d = IF f.nest THEN depth + 1 ELSE depth
  PROVE  /\ depth' = d
         /\ ifstate' = [e \in 0 .. d |-> IF e = d THEN f.group ELSE ifstate[e]]
         /\ ignoring' = [e \in 0 .. d |-> IF e = d THEN Ignore(f.ignore, d) ELSE ignoring[e]]
BY Zenon DEF Group

LEMMA GroupTop ==
  ASSUME depth \in Nat, NEW f, f.group \notin { "same", "unnest" }, Group(f)
  PROVE  ifstate'[depth'] = f.group
<1>1. ASSUME NEW d, d \in Nat, d = IF f.nest THEN depth + 1 ELSE depth
      PROVE  ifstate'[depth'] = f.group
  <2>1. /\ depth' = d
        /\ ifstate' = [e \in 0 .. d |-> IF e = d THEN f.group ELSE ifstate[e]]
    BY <1>1, GroupEntered
  <2>2. d \in 0 .. d
    BY <1>1
  <2> QED
    BY <2>1, <2>2
<1>2. CASE f.nest
  BY <1>1, <1>2
<1>3. CASE ~f.nest
  BY <1>1, <1>3
<1> QED
  BY <1>2, <1>3

LEMMA Comments ==
  ASSUME NEW type \in Directive, NEW dodgy \in BOOLEAN, NEW after \in BOOLEAN,
         Readable(type, dodgy, after), incomment \/ after
  PROVE  dodgy \/ (~incomment /\ type \in { "IF", "ELIF", "ELSE", "ENDIF" })
BY Zenon DEF Readable, Directive

(* What becomes of a line, and of the numbers of the lines that follow.     *)
LEMMA Flushed ==
  ASSUME TypeOK, NEW keep \in BOOLEAN, NEW text \in { "same", "if", "else", "endif" },
         flushline(keep, text)
  PROVE  /\ out' \in Written /\ delcount' \in 0 .. 1 /\ exitstat' \in 0 .. 2
         /\ ~opts.symlist /\ (keep # opts.complement) =>
              /\ out'.text = text
              /\ opts.lnnum /\ delcount = 1 => out'.sharp = {0}
         /\ ~opts.symlist /\ ~(keep # opts.complement) =>
              /\ out'.text = IF opts.lnblank THEN "blank" ELSE "no"
              /\ out'.sharp = {} /\ delcount' = 1
<1>1. opts \in OptionRecord /\ delcount \in 0 .. 1 /\ exitstat \in 0 .. 2
  BY OptionsAssumption DEF TypeOK
<1> QED
  BY <1>1 DEF flushline, Written, NotWritten

-----------------------------------------------------------------------------
(* The stack of groups keeps its type.                                      *)

Stack ==
  /\ depth \in 0 .. MAXDEPTH - 1
  /\ ifstate \in [0 .. depth -> Ifstate]
  /\ \A d \in 0 .. depth : ifstate[d] = "OUTSIDE" <=> d = 0
  /\ ignoring \in [0 .. depth -> BOOLEAN]

LEMMA StackLeft ==
  ASSUME TypeOK, NEW f, f.group = "unnest", Group(f), ifstate[depth] # "OUTSIDE"
  PROVE  /\ Stack' /\ depth > 0 /\ depth' = depth - 1
         /\ \A i \in 0 .. depth - 1 : ifstate'[i] = ifstate[i]
<1>1. depth \in Nat /\ depth > 0
  BY DepthAssumption DEF TypeOK
<1>2. PICK d \in Nat : d = depth - 1
  BY <1>1
<1>3. /\ depth' = d
      /\ ifstate' = [e \in 0 .. d |-> ifstate[e]]
      /\ ignoring' = [e \in 0 .. d |-> ignoring[e]]
  BY <1>2, GroupLeft
<1>4. \A i \in 0 .. d : i \in 0 .. depth
  BY <1>1, <1>2
<1>5. d \in 0 .. MAXDEPTH - 1
  BY <1>1, <1>2, DepthAssumption DEF TypeOK
<1>6. Stack'
  BY <1>3, <1>4, <1>5 DEF TypeOK, Stack
<1> QED
  BY <1>1, <1>2, <1>3, <1>6

LEMMA StackEntered ==
  ASSUME TypeOK, NEW f, f.group \in Ifstate \ { "OUTSIDE" }, Group(f),
         f.nest => depth + 1 < MAXDEPTH /\ f.ignore \in { "on", "off" },
         ~f.nest => depth > 0 /\ f.ignore \in { "off", "same" },
         NEW d, d = IF f.nest THEN depth + 1 ELSE depth
  PROVE  /\ Stack' /\ d \in { depth, depth + 1 } /\ d > 0 /\ depth' = d
         /\ \A i \in 0 .. d - 1 : ifstate'[i] = ifstate[i]
         /\ ifstate'[d] = f.group
<1>1. depth \in Nat /\ d \in Nat /\ d > 0 /\ d \in { depth, depth + 1 }
  BY DepthAssumption DEF TypeOK
<1>2. d \in 0 .. MAXDEPTH - 1
  BY <1>1, DepthAssumption DEF TypeOK
<1>3. f.group \notin { "same", "unnest" }
  BY DEF Ifstate
<1>4. /\ depth' = d
      /\ ifstate' = [e \in 0 .. d |-> IF e = d THEN f.group ELSE ifstate[e]]
      /\ ignoring' = [e \in 0 .. d |-> IF e = d THEN Ignore(f.ignore, d) ELSE ignoring[e]]
  BY <1>3, GroupEntered
<1>5. Ignore(f.ignore, d) \in BOOLEAN
  <2>1. /\ Ignore("off", d) = ignoring[d - 1] /\ Ignore("on", d) = TRUE
        /\ Ignore("same", d) = ignoring[d]
    BY Zenon DEF Ignore
  <2>2. d - 1 \in 0 .. depth /\ (~f.nest => d \in 0 .. depth)
    BY <1>1
  <2> QED
    BY <2>1, <2>2 DEF TypeOK
<1>6. \A i \in 0 .. d : i = d \/ (i \in 0 .. depth /\ i \in 0 .. d - 1)
  BY <1>1
<1>7. Stack'
  BY <1>1, <1>2, <1>4, <1>5, <1>6 DEF TypeOK, Stack
<1>8. \A i \in 0 .. d - 1 : ifstate'[i] = ifstate[i]
  BY <1>1, <1>4
<1> QED
  BY <1>1, <1>4, <1>7, <1>8

-----------------------------------------------------------------------------
(* A line of each kind keeps the groups, in the input and in the output, as *)
(* the invariant has them.                                                  *)

(* What the output's preprocessor reads, when the output is the file again. *)
LEMMA OutputReads ==
  ASSUME TypeOK, Plainly, NEW type, NEW truth, NEW keep \in BOOLEAN,
         NEW text \in { "same", "if", "else", "endif" },
         flushline(keep, text), Observe(type, truth)
  PROVE  /\ ~keep => dst' = dst
         /\ keep /\ text = "same" => dst' = ReadDirective(dst, DirectiveOf(type), truth)
         /\ keep /\ text # "same" => dst' = ReadDirective(dst, text, truth)
<1>1. /\ keep => out'.text = text
      /\ ~keep => out'.text \in { "no", "blank" }
  <2>1. ~opts.symlist /\ ~opts.complement /\ opts.complement \in BOOLEAN
    BY OptionsAssumption DEF TypeOK, Plainly, OptionRecord
  <2>2. keep <=> (keep # opts.complement)
    BY <2>1
  <2> QED
    BY <2>1, <2>2, Flushed
<1>2. dst' = ReadDirective(dst, WrittenDirective(type, out'.text), truth)
  BY DEF Observe
<1> QED
  BY <1>1, <1>2, WrittenTexts, ReadNone

LEMMA PlainStep ==
  ASSUME TypeOK, SourceInv, OutputInv, NEW truth, NEW dodgy \in BOOLEAN, NEW after,
         Process("PLAIN", dodgy, after), Observe("PLAIN", truth)
  PROVE  UNCHANGED <<depth, ifstate, ignoring>> /\ Stack' /\ SourceInv' /\ OutputInv'
<1> DEFINE f == trans_table(ifstate[depth], "PLAIN", dodgy)
<1>1. ifstate[depth] \in Ifstate
  BY DepthAssumption DEF TypeOK
<1>2. f.group = "same" /\ f.text = "same" /\ f.keep = ~Dropping(ifstate[depth])
  BY <1>1, PlainColumn
<1>3. UNCHANGED <<depth, ifstate, ignoring>>
  BY <1>2, GroupKept DEF Process
<1>4. src' = src
  BY Types, ReadNone DEF Observe
<1>5. Plainly => dst' = dst
  <2> HAVE Plainly
  <2>1. flushline(f.keep, "same") /\ f.keep \in BOOLEAN
    BY <1>2 DEF Process
  <2> QED
    BY <2>1, OutputReads, Types, ReadNone
<1>6. Plainly' <=> Plainly
  BY DEF Process, Plainly
<1>7. Stack'
  BY <1>3 DEF TypeOK, Stack
<1>8. SourceInv'
  BY <1>3, <1>4 DEF SourceInv, SourceLevel, Buried, Dropping
<1>9. OutputInv'
  BY <1>3, <1>4, <1>5, <1>6 DEF OutputInv, Beside, Position, OutputLevel, SameGroup
<1> QED
  BY <1>3, <1>7, <1>8, <1>9

LEMMA IfStep ==
  ASSUME TypeOK, SourceInv, OutputInv, NEW type \in If, NEW truth \in Truths(type),
         NEW dodgy \in BOOLEAN, NEW after, Process(type, dodgy, after), Observe(type, truth)
  PROVE  Stack' /\ SourceInv' /\ OutputInv'
<1> PICK is \in Ifstate : is = ifstate[depth]
  BY DepthAssumption DEF TypeOK
<1> PICK f : f = trans_table(is, type, dodgy)
  OBVIOUS
<1> PICK d \in Nat : d = depth + 1 /\ d - 1 = depth
  BY DepthAssumption DEF TypeOK
<1>1. /\ f.nest /\ f.text = "same" /\ f.ignore \in { "on", "off" } /\ f.keep \in BOOLEAN
      /\ \/ Dropping(is) /\ ~f.keep /\ f.group = "FALSE_TRAILER"
         \/ ~Dropping(is) /\ f.keep /\ f.group = "PASS_MIDDLE"
         \/ /\ ~Dropping(is) /\ ~f.keep
            /\ \/ f.group = "TRUE_PREFIX" /\ type \in { "TRUEI", "TRUE" }
               \/ f.group = "FALSE_PREFIX" /\ type \in { "FALSEI", "FALSE" }
  BY IfColumn DEF Process
<1>2. /\ Stack' /\ d > 0 /\ depth' = d
      /\ \A i \in 0 .. d - 1 : ifstate'[i] = ifstate[i]
      /\ ifstate'[d] = f.group /\ ifstate'[d] \in Ifstate
  <2>1. f.group \in Ifstate \ { "OUTSIDE" } /\ Group(f) /\ depth + 1 < MAXDEPTH
    BY <1>1 DEF Process, Ifstate
  <2> QED
    BY <1>1, <2>1, StackEntered
<1>3. /\ truth \in BOOLEAN
      /\ type \in { "TRUEI", "TRUE" } => truth
      /\ type \in { "FALSEI", "FALSE" } => ~truth
  BY Types
<1>4. /\ src' \in Preprocessor /\ ~src'.bad /\ Len(src'.groups) = d
      /\ \A i \in 1 .. d - 1 : src'.groups[i] = src.groups[i]
      /\ (src'.groups[d].on <=> truth) /\ (src'.groups[d].taken <=> truth) /\ ~src'.groups[d].else
  <2>1. src' = ReadDirective(src, "if", truth)
    BY Types DEF Observe
  <2>2. src \in Preprocessor /\ ~src.bad /\ Len(src.groups) = d - 1
    BY DEF SourceInv
  <2>3. (d - 1) + 1 = d
    OBVIOUS
  <2>4. Opened(src', src, truth)
    BY <1>3, <2>1, <2>2, ReadIf
  <2> QED
    BY <2>2, <2>3, <2>4 DEF Opened
<1>5. Below(d)
  BY <1>2, <1>4 DEF Below
<1>6. ifstate'[d - 1] = is
  <2>1. d - 1 = depth /\ d - 1 \in 0 .. d - 1
    BY <1>2
  <2> QED
    BY <1>2, <2>1
<1>7. SourceLevel(d)'
  BY <1>1, <1>2, <1>3, <1>4, <1>6 DEF SourceLevel, Buried, Elsed, Dropping
<1>8. SourceInv'
  BY <1>2, <1>4, <1>5, <1>7, SourceTop
<1>9. OutputInv'
  <2> SUFFICES ASSUME Plainly
               PROVE  dst' \in Preprocessor /\ ~dst'.bad /\ \E at : Beside(at)'
    BY DEF OutputInv, Process, Plainly
  <2>1. dst \in Preprocessor /\ ~dst.bad
    BY DEF OutputInv
  <2> PICK at : Beside(at)
    BY DEF OutputInv
  <2> PICK k \in Nat : k = at[d - 1] /\ k = Len(dst.groups)
    BY DepthAssumption DEF Beside, Position, TypeOK
  <2>2. flushline(f.keep, "same")
    BY <1>1 DEF Process
  <2>3. CASE f.keep
    <3>1. dst' = ReadDirective(dst, "if", truth)
      BY <1>1, <2>2, <2>3, OutputReads, Types
    <3>2. /\ dst' \in Preprocessor /\ ~dst'.bad /\ Len(dst'.groups) = k + 1
          /\ \A i \in 1 .. k : dst'.groups[i] = dst.groups[i]
          /\ (dst'.groups[k + 1].on <=> truth) /\ (dst'.groups[k + 1].taken <=> truth)
          /\ ~dst'.groups[k + 1].else
      BY <1>3, <2>1, <3>1, ReadIf DEF Opened
    <3>3. ifstate'[d] = "PASS_MIDDLE"
      BY <1>1, <1>2, <2>3
    <3>4. OutputLevel(d, k + 1)'
      BY <1>4, <3>2, <3>3 DEF OutputLevel, SameGroup
    <3>5. ifstate'[d] \in Open
      BY <3>3 DEF Open
    <3> QED
      BY <1>2, <1>5, <3>2, <3>4, <3>5, OutputTop
  <2>4. CASE ~f.keep
    <3>1. dst' = dst
      BY <1>1, <2>2, <2>4, OutputReads
    <3>2. ifstate'[d] \notin Open
      BY <1>1, <1>2, <2>4 DEF Open
    <3> QED
      BY <1>2, <1>5, <2>1, <3>1, <3>2, OutputTop
  <2> QED
    BY <2>3, <2>4
<1> QED
  BY <1>2, <1>8, <1>9

(* A directive that changes the innermost group and stays on its level.     *)
LEMMA ElifStep ==
  ASSUME TypeOK, SourceInv, OutputInv, NEW type \in Elif, NEW truth \in Truths(type),
         NEW dodgy \in BOOLEAN, NEW after, Process(type, dodgy, after), Observe(type, truth)
  PROVE  Stack' /\ SourceInv' /\ OutputInv'
<1> PICK is \in Ifstate : is = ifstate[depth]
  BY DepthAssumption DEF TypeOK
<1> PICK f : f = trans_table(is, type, dodgy)
  OBVIOUS
<1>1. /\ ~f.nest /\ f.ignore \in { "off", "same" } /\ f.keep \in BOOLEAN
      /\ \/ /\ is = "FALSE_PREFIX"
            /\ \/ f.keep /\ f.text = "if" /\ f.group = "PASS_MIDDLE"
               \/ ~f.keep /\ f.text = "same" /\ f.group = "TRUE_PREFIX" /\ type = "ELTRUE"
               \/ ~f.keep /\ f.text = "same" /\ f.group = "FALSE_PREFIX" /\ type = "ELFALSE"
         \/ /\ is \in { "TRUE_PREFIX", "FALSE_TRAILER" }
            /\ ~f.keep /\ f.text = "same" /\ f.group = "FALSE_TRAILER"
         \/ /\ is \in { "PASS_MIDDLE", "FALSE_MIDDLE" }
            /\ \/ f.keep /\ f.text = "same" /\ f.group = "PASS_MIDDLE"
               \/ f.keep /\ f.text = "else" /\ f.group = "TRUE_MIDDLE" /\ type = "ELTRUE"
               \/ ~f.keep /\ f.text = "same" /\ f.group = "FALSE_MIDDLE" /\ type = "ELFALSE"
         \/ is = "TRUE_MIDDLE" /\ f.keep /\ f.text = "endif" /\ f.group = "FALSE_TRAILER"
  BY ElifColumn DEF Process
<1>2. is # "OUTSIDE" /\ depth > 0
  BY <1>1, DepthAssumption DEF TypeOK
<1> PICK d \in Nat : d = depth /\ d > 0 /\ d - 1 \in 0 .. depth /\ d - 1 \in 0 .. d - 1
  BY <1>2, DepthAssumption DEF TypeOK
<1>3. /\ Stack' /\ depth' = d
      /\ \A i \in 0 .. d - 1 : ifstate'[i] = ifstate[i]
      /\ ifstate'[d] = f.group /\ ifstate'[d] \in Ifstate
  <2>1. f.group \in Ifstate \ { "OUTSIDE" } /\ Group(f)
    BY <1>1 DEF Process, Ifstate
  <2> QED
    BY <1>1, <1>2, <2>1, StackEntered
<1>4. /\ truth \in BOOLEAN
      /\ type = "ELTRUE" => truth
      /\ type = "ELFALSE" => ~truth
  BY Types
<1> PICK g : g = src.groups[d]
  OBVIOUS
<1>5. SourceLevel(d) /\ ~g.else
  BY <1>1, <1>2 DEF SourceInv, SourceLevel, Elsed
<1>6. /\ src' \in Preprocessor /\ ~src'.bad /\ Len(src'.groups) = d
      /\ \A i \in 1 .. d - 1 : src'.groups[i] = src.groups[i]
      /\ src'.groups[d].on <=> (truth /\ ~g.taken)
      /\ src'.groups[d].taken <=> (truth \/ g.taken)
      /\ ~src'.groups[d].else
  <2>1. src' = ReadDirective(src, "elif", truth)
    BY Types DEF Observe
  <2>2. src \in Preprocessor /\ ~src.bad /\ Len(src.groups) = d
    BY DEF SourceInv
  <2>3. Branch(src', src, truth /\ ~g.taken, truth \/ g.taken, FALSE)
    BY <1>4, <1>5, <2>1, <2>2, ReadElif
  <2> QED
    BY <2>2, <2>3 DEF Branch
<1>7. Below(d)
  BY <1>3, <1>6 DEF Below
<1>8. ifstate'[d - 1] = ifstate[d - 1]
  BY <1>3
<1>9. SourceLevel(d)'
  <2>1. Buried(d)' <=> Buried(d)
    BY <1>8 DEF Buried, Dropping
  <2> QED
    BY <1>1, <1>3, <1>4, <1>5, <1>6, <2>1 DEF SourceLevel, Elsed, Dropping
<1>10. SourceInv'
  BY <1>3, <1>6, <1>7, <1>9, SourceTop
<1>11. OutputInv'
  <2> SUFFICES ASSUME Plainly
               PROVE  dst' \in Preprocessor /\ ~dst'.bad /\ \E at : Beside(at)'
    BY DEF OutputInv, Process, Plainly
  <2>1. dst \in Preprocessor /\ ~dst.bad
    BY DEF OutputInv
  <2> PICK at : Beside(at)
    BY DEF OutputInv
  <2> PICK k \in Nat : k = at[d - 1]
    BY DEF Beside, Position
  <2>2. Len(dst.groups) = IF is \in Open THEN k + 1 ELSE k
    BY DEF Beside, Position
  <2>3. flushline(f.keep, f.text) /\ f.text \in { "same", "if", "else", "endif" }
    BY <1>1 DEF Process
  <2>4. is \in Open => SameGroup(is, g, dst.groups[k + 1])
    BY DEF Beside, Position, OutputLevel
  <2>5. CASE is = "FALSE_PREFIX" /\ f.keep
    <3>1. dst' = ReadDirective(dst, "if", truth)
      BY <1>1, <2>3, <2>5, OutputReads
    <3>2. Len(dst.groups) = k
      BY <2>2, <2>5 DEF Open
    <3>3. Opened(dst', dst, truth)
      BY <1>4, <2>1, <3>1, ReadIf
    <3>4. ifstate'[d] = "PASS_MIDDLE"
      BY <1>1, <1>3, <2>5
    <3>5. ~g.taken
      BY <1>5, <2>5 DEF SourceLevel
    <3>6. OutputLevel(d, k + 1)'
      BY <1>6, <3>2, <3>3, <3>4, <3>5 DEF OutputLevel, SameGroup, Opened
    <3>7. ifstate'[d] \in Open
      BY <3>4 DEF Open
    <3>8. dst' \in Preprocessor /\ ~dst'.bad /\ Len(dst'.groups) = k + 1
          /\ \A i \in 1 .. k : dst'.groups[i] = dst.groups[i]
      BY <2>1, <3>2, <3>3 DEF Opened
    <3> QED
      BY <1>3, <1>7, <3>6, <3>7, <3>8, OutputTop
  <2>6. CASE ~f.keep
    <3>1. dst' = dst
      BY <2>3, <2>6, <1>1, OutputReads
    <3>2. (is \in Open /\ is \in { "PASS_MIDDLE", "FALSE_MIDDLE" } /\ ifstate'[d] = "FALSE_MIDDLE" /\ ~truth)
          \/ (is \notin Open /\ ifstate'[d] \notin Open)
      BY <1>1, <1>3, <1>4, <2>6 DEF Open
    <3>3. ifstate'[d] \in Open => OutputLevel(d, k + 1)'
      BY <1>6, <2>4, <3>1, <3>2 DEF OutputLevel, SameGroup
    <3>4. Len(dst'.groups) = IF ifstate'[d] \in Open THEN k + 1 ELSE k
      BY <2>2, <3>1, <3>2 DEF Open
    <3> QED
      BY <1>3, <1>7, <2>1, <3>1, <3>3, <3>4, OutputTop
  <2>7. CASE is \in { "PASS_MIDDLE", "FALSE_MIDDLE" } /\ f.keep
    <3> PICK h : h = dst.groups[k + 1]
      OBVIOUS
    <3>1. /\ is \in Open /\ Len(dst.groups) = k + 1 /\ Len(dst.groups) > 0
          /\ h = dst.groups[Len(dst.groups)] /\ (h.taken <=> g.taken) /\ ~h.else
      BY <2>2, <2>4, <2>7 DEF Open, SameGroup
    <3>2. \/ /\ ifstate'[d] = "PASS_MIDDLE"
             /\ Branch(dst', dst, truth /\ ~g.taken, truth \/ g.taken, FALSE)
          \/ /\ ifstate'[d] = "TRUE_MIDDLE" /\ truth
             /\ Branch(dst', dst, ~g.taken, TRUE, TRUE)
      <4>1. CASE f.text = "same"
        <5>1. dst' = ReadDirective(dst, "elif", truth)
          <6>1. DirectiveOf(type) = "elif"
            BY Types
          <6>2. f.keep \in BOOLEAN /\ f.keep /\ f.text = "same"
            BY <1>1, <2>7, <4>1
          <6>3. dst' = ReadDirective(dst, DirectiveOf(type), truth)
            BY <2>3, <6>2, OutputReads
          <6> QED
            BY <6>1, <6>3
        <5>2. Branch(dst', dst, truth /\ ~h.taken, truth \/ h.taken, FALSE)
          BY <1>4, <2>1, <3>1, <5>1, ReadElif
        <5>3. ifstate'[d] = "PASS_MIDDLE"
          BY <1>1, <1>3, <2>7, <4>1
        <5> QED
          BY <3>1, <5>2, <5>3 DEF Branch
      <4>2. CASE f.text = "else"
        <5>1. dst' = ReadDirective(dst, "else", truth) /\ ifstate'[d] = "TRUE_MIDDLE" /\ truth
          BY <1>1, <1>3, <1>4, <2>3, <2>7, <4>2, OutputReads
        <5>2. Branch(dst', dst, ~h.taken, TRUE, TRUE)
          BY <1>4, <2>1, <3>1, <5>1, ReadElse
        <5> QED
          BY <3>1, <5>1, <5>2 DEF Branch
      <4> QED
        BY <1>1, <2>7, <4>1, <4>2
    <3>3. dst' \in Preprocessor /\ ~dst'.bad /\ Len(dst'.groups) = k + 1
          /\ \A i \in 1 .. k : dst'.groups[i] = dst.groups[i]
      BY <2>1, <3>1, <3>2 DEF Branch
    <3>4. OutputLevel(d, k + 1)'
      BY <1>6, <3>1, <3>2 DEF OutputLevel, SameGroup, Branch
    <3>5. ifstate'[d] \in Open
      BY <3>2 DEF Open
    <3> QED
      BY <1>3, <1>7, <3>3, <3>4, <3>5, OutputTop
  <2>8. CASE is = "TRUE_MIDDLE" /\ f.keep
    <3>1. dst' = ReadDirective(dst, "endif", truth) /\ ifstate'[d] = "FALSE_TRAILER"
      BY <1>1, <1>3, <2>3, <2>8, OutputReads
    <3>2. Len(dst.groups) = k + 1 /\ Len(dst.groups) > 0
      BY <2>2, <2>8 DEF Open
    <3>3. Closed(dst', dst)
      BY <1>4, <2>1, <3>1, <3>2, ReadEndif
    <3>4. dst' \in Preprocessor /\ ~dst'.bad /\ Len(dst'.groups) = k
          /\ \A i \in 1 .. k : dst'.groups[i] = dst.groups[i]
      BY <2>1, <3>2, <3>3 DEF Closed
    <3>5. ifstate'[d] \notin Open
      BY <3>1 DEF Open
    <3> QED
      BY <1>3, <1>7, <3>4, <3>5, OutputTop
  <2> QED
    BY <1>1, <2>5, <2>6, <2>7, <2>8
<1> QED
  BY <1>3, <1>10, <1>11

LEMMA ElseStep ==
  ASSUME TypeOK, SourceInv, OutputInv, NEW truth \in Truths("ELSE"),
         NEW dodgy \in BOOLEAN, NEW after, Process("ELSE", dodgy, after), Observe("ELSE", truth)
  PROVE  Stack' /\ SourceInv' /\ OutputInv'
<1> PICK is \in Ifstate : is = ifstate[depth]
  BY DepthAssumption DEF TypeOK
<1> PICK f : f = trans_table(is, "ELSE", dodgy)
  OBVIOUS
<1>1. /\ ~f.nest /\ f.ignore = "same" /\ f.keep \in BOOLEAN
      /\ \/ is = "FALSE_PREFIX" /\ ~f.keep /\ f.text = "same" /\ f.group = "TRUE_ELSE"
         \/ /\ is \in { "TRUE_PREFIX", "FALSE_TRAILER" }
            /\ ~f.keep /\ f.text = "same" /\ f.group = "FALSE_ELSE"
         \/ /\ is \in { "PASS_MIDDLE", "FALSE_MIDDLE" }
            /\ f.keep /\ f.text = "same" /\ f.group = "PASS_ELSE"
         \/ is = "TRUE_MIDDLE" /\ f.keep /\ f.text = "endif" /\ f.group = "FALSE_ELSE"
  BY ElseColumn DEF Process
<1>2. is # "OUTSIDE" /\ depth > 0
  BY <1>1, DepthAssumption DEF TypeOK
<1> PICK d \in Nat : d = depth /\ d > 0 /\ d - 1 \in 0 .. depth /\ d - 1 \in 0 .. d - 1
  BY <1>2, DepthAssumption DEF TypeOK
<1>3. /\ Stack' /\ depth' = d
      /\ \A i \in 0 .. d - 1 : ifstate'[i] = ifstate[i]
      /\ ifstate'[d] = f.group /\ ifstate'[d] \in Ifstate
  <2>1. f.group \in Ifstate \ { "OUTSIDE" } /\ Group(f)
    BY <1>1 DEF Process, Ifstate
  <2> QED
    BY <1>1, <1>2, <2>1, StackEntered
<1>4. truth \in BOOLEAN
  BY Types
<1> PICK g : g = src.groups[d]
  OBVIOUS
<1>5. SourceLevel(d) /\ ~g.else
  BY <1>1, <1>2 DEF SourceInv, SourceLevel, Elsed
<1>6. /\ src' \in Preprocessor /\ ~src'.bad /\ Len(src'.groups) = d
      /\ \A i \in 1 .. d - 1 : src'.groups[i] = src.groups[i]
      /\ src'.groups[d].on <=> ~g.taken
      /\ src'.groups[d].taken /\ src'.groups[d].else
  <2>1. src' = ReadDirective(src, "else", truth)
    BY Types DEF Observe
  <2>2. src \in Preprocessor /\ ~src.bad /\ Len(src.groups) = d
    BY DEF SourceInv
  <2>3. Branch(src', src, ~g.taken, TRUE, TRUE)
    BY <1>4, <1>5, <2>1, <2>2, ReadElse
  <2> QED
    BY <2>2, <2>3 DEF Branch
<1>7. Below(d)
  BY <1>3, <1>6 DEF Below
<1>8. ifstate'[d - 1] = ifstate[d - 1]
  BY <1>3
<1>9. SourceLevel(d)'
  <2>1. Buried(d)' <=> Buried(d)
    BY <1>8 DEF Buried, Dropping
  <2> QED
    BY <1>1, <1>3, <1>5, <1>6, <2>1 DEF SourceLevel, Elsed, Dropping
<1>10. SourceInv'
  BY <1>3, <1>6, <1>7, <1>9, SourceTop
<1>11. OutputInv'
  <2> SUFFICES ASSUME Plainly
               PROVE  dst' \in Preprocessor /\ ~dst'.bad /\ \E at : Beside(at)'
    BY DEF OutputInv, Process, Plainly
  <2>1. dst \in Preprocessor /\ ~dst.bad
    BY DEF OutputInv
  <2> PICK at : Beside(at)
    BY DEF OutputInv
  <2> PICK k \in Nat : k = at[d - 1]
    BY DEF Beside, Position
  <2>2. Len(dst.groups) = IF is \in Open THEN k + 1 ELSE k
    BY DEF Beside, Position
  <2>3. flushline(f.keep, f.text) /\ f.text \in { "same", "if", "else", "endif" }
    BY <1>1 DEF Process
  <2>4. is \in Open => SameGroup(is, g, dst.groups[k + 1])
    BY DEF Beside, Position, OutputLevel
  <2>5. CASE ~f.keep
    <3>1. dst' = dst
      BY <2>3, <2>5, <1>1, OutputReads
    <3>2. is \notin Open /\ ifstate'[d] \notin Open
      BY <1>1, <1>3, <2>5 DEF Open
    <3> QED
      BY <1>3, <1>7, <2>1, <2>2, <3>1, <3>2, OutputTop
  <2>6. CASE is \in { "PASS_MIDDLE", "FALSE_MIDDLE" }
    <3> PICK h : h = dst.groups[k + 1]
      OBVIOUS
    <3>1. /\ is \in Open /\ Len(dst.groups) = k + 1 /\ Len(dst.groups) > 0
          /\ h = dst.groups[Len(dst.groups)] /\ (h.taken <=> g.taken) /\ ~h.else
      BY <2>2, <2>4, <2>6 DEF Open, SameGroup
    <3>2. dst' = ReadDirective(dst, "else", truth)
      BY <1>1, <2>3, <2>6, OutputReads, Types
    <3>3. Branch(dst', dst, ~h.taken, TRUE, TRUE)
      BY <1>4, <2>1, <3>1, <3>2, ReadElse
    <3>4. ifstate'[d] = "PASS_ELSE"
      BY <1>1, <1>3, <2>6
    <3>5. dst' \in Preprocessor /\ ~dst'.bad /\ Len(dst'.groups) = k + 1
          /\ \A i \in 1 .. k : dst'.groups[i] = dst.groups[i]
      BY <2>1, <3>1, <3>3 DEF Branch
    <3>6. OutputLevel(d, k + 1)'
      BY <1>6, <3>1, <3>3, <3>4 DEF OutputLevel, SameGroup, Branch
    <3>7. ifstate'[d] \in Open
      BY <3>4 DEF Open
    <3> QED
      BY <1>3, <1>7, <3>5, <3>6, <3>7, OutputTop
  <2>7. CASE is = "TRUE_MIDDLE"
    <3>1. dst' = ReadDirective(dst, "endif", truth) /\ ifstate'[d] = "FALSE_ELSE"
      BY <1>1, <1>3, <2>3, <2>7, OutputReads
    <3>2. Len(dst.groups) = k + 1 /\ Len(dst.groups) > 0
      BY <2>2, <2>7 DEF Open
    <3>3. Closed(dst', dst)
      BY <1>4, <2>1, <3>1, <3>2, ReadEndif
    <3>4. dst' \in Preprocessor /\ ~dst'.bad /\ Len(dst'.groups) = k
          /\ \A i \in 1 .. k : dst'.groups[i] = dst.groups[i]
      BY <2>1, <3>2, <3>3 DEF Closed
    <3>5. ifstate'[d] \notin Open
      BY <3>1 DEF Open
    <3> QED
      BY <1>3, <1>7, <3>4, <3>5, OutputTop
  <2> QED
    BY <1>1, <2>5, <2>6, <2>7
<1> QED
  BY <1>3, <1>10, <1>11

LEMMA EndifStep ==
  ASSUME TypeOK, SourceInv, OutputInv, NEW truth \in Truths("ENDIF"),
         NEW dodgy \in BOOLEAN, NEW after, Process("ENDIF", dodgy, after), Observe("ENDIF", truth)
  PROVE  Stack' /\ SourceInv' /\ OutputInv'
<1> PICK is \in Ifstate : is = ifstate[depth]
  BY DepthAssumption DEF TypeOK
<1> PICK f : f = trans_table(is, "ENDIF", dodgy)
  OBVIOUS
<1>1. /\ f.text = "same" /\ f.group = "unnest" /\ is # "OUTSIDE" /\ f.keep \in BOOLEAN
      /\ f.keep <=> is \in Open
  BY EndifColumn DEF Process
<1>2. /\ Stack' /\ depth > 0 /\ depth' = depth - 1
      /\ \A i \in 0 .. depth - 1 : ifstate'[i] = ifstate[i]
  BY <1>1, StackLeft DEF Process
<1>3. truth \in BOOLEAN
  BY Types
<1>4. /\ src' \in Preprocessor /\ ~src'.bad /\ Len(src'.groups) = depth - 1
      /\ \A i \in 1 .. depth - 1 : src'.groups[i] = src.groups[i]
  <2>1. src' = ReadDirective(src, "endif", truth)
    BY Types DEF Observe
  <2>2. src \in Preprocessor /\ ~src.bad /\ Len(src.groups) = depth /\ Len(src.groups) > 0
    BY <1>2 DEF SourceInv
  <2>3. Closed(src', src)
    BY <1>3, <2>1, <2>2, ReadEndif
  <2> QED
    BY <2>2, <2>3 DEF Closed
<1>5. SourceInv'
  BY <1>2, <1>4, SourcePop
<1>6. OutputInv'
  <2> SUFFICES ASSUME Plainly
               PROVE  dst' \in Preprocessor /\ ~dst'.bad /\ \E at : Beside(at)'
    BY DEF OutputInv, Process, Plainly
  <2>1. dst \in Preprocessor /\ ~dst.bad
    BY DEF OutputInv
  <2> PICK at : Beside(at)
    BY DEF OutputInv
  <2>2. depth - 1 \in 0 .. depth /\ depth \in 1 .. depth
    BY <1>2, DepthAssumption DEF TypeOK
  <2> PICK k \in Nat : k = at[depth - 1]
    BY <2>2 DEF Beside, Position
  <2>3. Len(dst.groups) = IF is \in Open THEN k + 1 ELSE k
    BY <2>2 DEF Beside, Position
  <2>4. flushline(f.keep, "same")
    BY <1>1 DEF Process
  <2>5. CASE f.keep
    <3>1. dst' = ReadDirective(dst, "endif", truth)
      BY <1>1, <2>4, <2>5, OutputReads, Types
    <3>2. Len(dst.groups) = k + 1 /\ Len(dst.groups) > 0
      BY <1>1, <2>3, <2>5
    <3>3. Closed(dst', dst)
      BY <1>3, <2>1, <3>1, <3>2, ReadEndif
    <3>4. dst' \in Preprocessor /\ ~dst'.bad /\ Len(dst'.groups) = k
          /\ \A i \in 1 .. k : dst'.groups[i] = dst.groups[i]
      BY <2>1, <3>2, <3>3 DEF Closed
    <3> QED
      BY <1>2, <1>4, <3>4, OutputPop
  <2>6. CASE ~f.keep
    <3>1. dst' = dst
      BY <1>1, <2>4, <2>6, OutputReads
    <3>2. Len(dst.groups) = k
      BY <1>1, <2>3, <2>6
    <3> QED
      BY <1>2, <1>4, <2>1, <3>1, <3>2, OutputPop
  <2> QED
    BY <2>5, <2>6
<1> QED
  BY <1>2, <1>5, <1>6

-----------------------------------------------------------------------------
(* What becomes of a line of any kind, and of a comment that goes on.       *)

LEMMA Kinds == Linetype \ { "EOF" } = If \cup Elif \cup { "ELSE", "ENDIF", "PLAIN" }
BY DEF Linetype, Directive, If, Elif

LEMMA Fates ==
  ASSUME NEW is \in Ifstate, NEW type \in Linetype \ { "EOF" }, NEW dodgy \in BOOLEAN,
         NEW f, f = trans_table(is, type, dodgy), f.group # "error"
  PROVE  f.keep \in BOOLEAN /\ f.text \in { "same", "if", "else", "endif" }
<1>1. CASE type = "PLAIN"
  BY <1>1, PlainColumn
<1>2. CASE type \in If
  BY <1>2, IfColumn
<1>3. CASE type \in Elif
  BY <1>3, ElifColumn
<1>4. CASE type = "ELSE"
  BY <1>4, ElseColumn
<1>5. CASE type = "ENDIF"
  BY <1>5, EndifColumn
<1> QED
  BY Kinds, <1>1, <1>2, <1>3, <1>4, <1>5

(* A dodgy directive, and an #if whose condition is not known, has the fate *)
(* of the lines before it and of those after it, unless it is an #elif that *)
(* becomes an #if.                                                          *)
LEMMA DodgyFate ==
  ASSUME TypeOK, SourceInv, NEW type \in Directive, NEW dodgy \in BOOLEAN, NEW after,
         Process(type, dodgy, after),
         NEW f, f = trans_table(ifstate[depth], type, dodgy)
  PROVE  dodgy \/ type = "IF" =>
           /\ f.keep <=> ~Dropping(ifstate'[depth'])
           /\ \/ f.keep <=> ~Dropping(ifstate[depth])
              \/ type = "ELIF" /\ ifstate[depth] = "FALSE_PREFIX"
<1> PICK is \in Ifstate : is = ifstate[depth]
  BY DepthAssumption DEF TypeOK
<1>1. f.group # "error" /\ Group(f) /\ f = trans_table(is, type, dodgy)
  BY DEF Process
<1>2. f.group \notin { "same", "unnest" } => ifstate'[depth'] = f.group
  BY <1>1, GroupTop, DepthAssumption DEF TypeOK
<1>3. CASE type \in If
  <2>1. ifstate'[depth'] = f.group
    BY <1>1, <1>2, <1>3, IfColumn
  <2>2. \/ ~dodgy /\ type # "IF"
        \/ f.keep /\ f.group = "PASS_MIDDLE" /\ ~Dropping(is)
        \/ ~f.keep /\ f.group = "FALSE_TRAILER" /\ Dropping(is)
    BY <1>1, <1>3, IfColumn
  <2>3. f.keep \in BOOLEAN
    BY <1>1, <1>3, IfColumn
  <2>4. dodgy \/ type = "IF" => (f.keep <=> ~Dropping(f.group))
    BY <2>2, <2>3 DEF Dropping
  <2>5. dodgy \/ type = "IF" => (f.keep <=> ~Dropping(is)) \/ (type = "ELIF" /\ is = "FALSE_PREFIX")
    BY <2>2, <2>3 DEF Dropping
  <2> QED
    BY <2>1, <2>4, <2>5
<1>4. CASE type \in Elif
  <2>1. ifstate'[depth'] = f.group
    BY <1>1, <1>2, <1>4, ElifColumn
  <2>2. \/ ~dodgy
        \/ /\ f.keep /\ f.group = "PASS_MIDDLE"
           /\ is = "PASS_MIDDLE" \/ (is = "FALSE_PREFIX" /\ type = "ELIF")
        \/ ~f.keep /\ f.group = "FALSE_TRAILER" /\ is = "FALSE_TRAILER"
    BY <1>1, <1>4, ElifColumn
  <2>3. f.keep \in BOOLEAN
    BY <1>1, <1>4, ElifColumn
  <2>4. dodgy => (f.keep <=> ~Dropping(f.group))
    BY <2>2, <2>3 DEF Dropping
  <2>5. dodgy => (f.keep <=> ~Dropping(is)) \/ (type = "ELIF" /\ is = "FALSE_PREFIX")
    BY <2>2, <2>3 DEF Dropping
  <2> QED
    BY <1>4, <2>1, <2>4, <2>5 DEF Elif
<1>5. CASE type = "ELSE"
  <2>1. ifstate'[depth'] = f.group
    BY <1>1, <1>2, <1>5, ElseColumn
  <2>2. \/ ~dodgy
        \/ f.keep /\ f.group = "PASS_ELSE" /\ is = "PASS_MIDDLE"
        \/ ~f.keep /\ f.group = "FALSE_ELSE" /\ is = "FALSE_TRAILER"
    BY <1>1, <1>5, ElseColumn
  <2>3. f.keep \in BOOLEAN
    BY <1>1, <1>5, ElseColumn
  <2>4. dodgy => (f.keep <=> ~Dropping(f.group))
    BY <2>2, <2>3 DEF Dropping
  <2>5. dodgy => (f.keep <=> ~Dropping(is)) \/ (type = "ELIF" /\ is = "FALSE_PREFIX")
    BY <2>2, <2>3 DEF Dropping
  <2> QED
    BY <1>5, <2>1, <2>4, <2>5
<1>6. CASE type = "ENDIF"
  <2>1. /\ f.group = "unnest" /\ is # "OUTSIDE" /\ (f.keep <=> is \in Open)
        /\ dodgy => is \in { "PASS_MIDDLE", "TRUE_MIDDLE", "PASS_ELSE" }
    BY <1>1, <1>6, EndifColumn
  <2>2. depth > 0 /\ depth' = depth - 1 /\ ifstate'[depth - 1] = ifstate[depth - 1]
    <3>1. depth > 0 /\ depth' = depth - 1 /\ \A i \in 0 .. depth - 1 : ifstate'[i] = ifstate[i]
      BY <1>1, <2>1, StackLeft
    <3>2. depth - 1 \in 0 .. depth - 1
      BY <3>1, DepthAssumption DEF TypeOK
    <3> QED
      BY <3>1, <3>2
  <2>3. dodgy => ~Dropping(ifstate[depth - 1])
    <3>1. SourceLevel(depth)
      BY <2>2, DepthAssumption DEF SourceInv, TypeOK
    <3> QED
      BY <2>1, <3>1 DEF SourceLevel, Buried
  <2> QED
    BY <1>6, <2>1, <2>2, <2>3 DEF Open, Dropping
<1> QED
  BY <1>3, <1>4, <1>5, <1>6 DEF Directive, If, Elif

LEMMA WrittenLine ==
  ASSUME TypeOK, NEW keep \in BOOLEAN, NEW text \in { "same", "if", "else", "endif" },
         flushline(keep, text), ~opts.symlist
  PROVE  IsWritten' <=> (keep # opts.complement)
BY Flushed DEF IsWritten

LEMMA LineStep ==
  ASSUME TypeOK, SourceInv, LineInv, NEW type \in Linetype \ { "EOF" }, NEW truth,
         NEW dodgy \in BOOLEAN, NEW after \in BOOLEAN,
         Process(type, dodgy, after), Observe(type, truth)
  PROVE  LineInv'
<1> PICK is \in Ifstate : is = ifstate[depth]
  BY DepthAssumption DEF TypeOK
<1> PICK f : f = trans_table(is, type, dodgy)
  OBVIOUS
<1>1. f.keep \in BOOLEAN /\ f.text \in { "same", "if", "else", "endif" } /\ flushline(f.keep, f.text)
  BY Fates DEF Process
<1>2. opts' = opts /\ status = "running" /\ status' = "running" /\ incomment' = after
      /\ line'.type = type /\ line'.dodgy = dodgy /\ Readable(type, dodgy, after) /\ Group(f)
  BY DEF Process
<1>3. opts.complement \in BOOLEAN /\ opts.lnnum \in BOOLEAN /\ opts.lnblank \in BOOLEAN
      /\ opts.symlist \in BOOLEAN
  BY OptionsAssumption DEF TypeOK, OptionRecord
<1>4. ~opts.symlist /\ (type = "PLAIN" \/ (after /\ ~Unnoticed')) => (IsWritten' <=> Passes')
  <2> SUFFICES ASSUME ~opts.symlist, type = "PLAIN" \/ (after /\ ~Unnoticed')
               PROVE  IsWritten' <=> Passes'
    OBVIOUS
  <2>1. f.keep <=> ~Dropping(ifstate'[depth'])
    <3>1. CASE type = "PLAIN"
      <4>1. f.group = "same" /\ f.keep = ~Dropping(is)
        BY <3>1, PlainColumn
      <4>2. depth' = depth /\ ifstate' = ifstate
        BY <1>2, <4>1, GroupKept
      <4> QED
        BY <4>1, <4>2
    <3>2. CASE type # "PLAIN"
      <4>1. type \in Directive
        BY <3>2 DEF Linetype
      <4>2. dodgy \/ type = "IF"
        <5>1. dodgy \/ type \in { "IF", "ELIF", "ELSE", "ENDIF" }
          BY <1>2, <3>2, <4>1, Comments
        <5>2. dodgy \/ type \notin { "ELIF", "ELSE", "ENDIF" }
          BY <1>2, <3>2 DEF Unnoticed
        <5> QED
          BY <5>1, <5>2
      <4> QED
        BY <4>1, <4>2, DodgyFate
    <3> QED
      BY <3>1, <3>2
  <2>2. IsWritten' <=> (f.keep # opts.complement)
    BY <1>1, WrittenLine
  <2> QED
    BY <1>1, <1>2, <1>3, <2>1, <2>2 DEF Passes
<1>5. skewed' \in BOOLEAN
  <2>1. skewed \in BOOLEAN
    BY DEF LineInv
  <2> QED
    BY <2>1, Zenon DEF Observe
<1>6. skewed' => ~IsWritten' /\ opts.lnnum /\ ~opts.symlist /\ delcount' = 1
  <2> SUFFICES ASSUME skewed'
               PROVE  ~IsWritten' /\ opts.lnnum /\ ~opts.symlist /\ delcount' = 1
    OBVIOUS
  <2>1. /\ opts.lnnum \/ opts.lnblank
        /\ ~opts.symlist
        /\ out'.text # "no" => IF out'.sharp = {} THEN skewed ELSE out'.sharp # {0}
    BY Zenon DEF Observe, Numbered
  <2>2. CASE f.keep # opts.complement
    <3>1. /\ out'.text # "no" /\ (opts.lnnum /\ delcount = 1 => out'.sharp = {0})
          /\ out'.sharp \in { {}, {0} }
      BY <1>1, <2>1, <2>2, Flushed DEF Written
    <3>2. out'.sharp = {} /\ skewed
      BY <2>1, <3>1
    <3>3. opts.lnnum /\ delcount = 1
      BY <3>2 DEF LineInv
    <3> QED
      BY <3>1, <3>2, <3>3
  <2>3. CASE ~(f.keep # opts.complement)
    <3>1. /\ out'.text = IF opts.lnblank THEN "blank" ELSE "no"
          /\ out'.sharp = {} /\ delcount' = 1
      BY <1>1, <2>1, <2>3, Flushed
    <3>2. ~IsWritten'
      BY <3>1 DEF IsWritten
    <3>3. opts.lnnum
      <4>1. CASE opts.lnblank
        <5>1. skewed
          BY <2>1, <3>1, <4>1
        <5> QED
          BY <5>1 DEF LineInv
      <4> QED
        BY <2>1, <4>1
    <3> QED
      BY <2>1, <3>1, <3>2, <3>3
  <2> QED
    BY <2>2, <2>3
<1> QED
  BY <1>2, <1>4, <1>5, <1>6 DEF LineInv

-----------------------------------------------------------------------------
(* The invariant is inductive.                                              *)

LEMMA InitInv == MInit => IInv
<1> SUFFICES ASSUME MInit PROVE IInv
  OBVIOUS
<1> USE DEF MInit, Init
<1>1. TypeOK
  <2>1. line \in [ type : Linetype \cup { "NONE" }, dodgy : BOOLEAN ] /\ out \in Written
    BY DEF Written, NotWritten
  <2>2. 0 .. depth = {0} /\ depth \in 0 .. MAXDEPTH - 1
    BY DepthAssumption
  <2>3. "OUTSIDE" \in Ifstate
    BY DEF Ifstate
  <2>4. ifstate \in [0 .. depth -> Ifstate] /\ \A d \in 0 .. depth : ifstate[d] = "OUTSIDE" /\ d = 0
    BY <2>2, <2>3
  <2>5. ignoring \in [0 .. depth -> BOOLEAN]
    BY <2>2
  <2>6. \A d \in 0 .. depth : ifstate[d] = "OUTSIDE" <=> d = 0
    BY <2>4
  <2>7. opts \in Options /\ incomment \in BOOLEAN /\ status \in { "running", "done", "error" }
    BY Zenon
  <2>8. delcount \in 0 .. 1 /\ exitstat \in 0 .. 2
    OBVIOUS
  <2> HIDE DEF MInit, Init
  <2> QED
    BY <2>1, <2>2, <2>4, <2>5, <2>6, <2>7, <2>8, Zenon DEF TypeOK
<1>2. src \in Preprocessor /\ ~src.bad /\ Len(src.groups) = 0 /\ dst = src
  BY DEF Start, Preprocessor
<1>3. SourceInv
  <2>1. ~Dropping(ifstate[0])
    BY DEF Dropping
  <2> QED
    BY <1>2, <2>1 DEF SourceInv
<1>4. OutputInv
  <2> DEFINE at == [ i \in 0 .. 0 |-> 0 ]
  <2>1. at \in [ 0 .. depth -> Nat ] /\ at[0] = 0 /\ at[depth] = 0
    OBVIOUS
  <2> HIDE DEF at
  <2>2. Position(at)
    BY <1>2, <2>1 DEF Position
  <2>3. Beside(at)
    BY <2>2 DEF Beside
  <2> QED
    BY <1>2, <2>3 DEF OutputInv
<1>5. LineInv
  BY DEF LineInv
<1> QED
  BY <1>1, <1>3, <1>4, <1>5 DEF IInv

LEMMA ReadLineStep ==
  ASSUME IInv, NEW type \in Linetype \ { "EOF" }, NEW dodgy \in BOOLEAN, NEW after \in BOOLEAN,
         NEW truth \in Truths(type), Process(type, dodgy, after), Observe(type, truth)
  PROVE  IInv'
<1> USE DEF IInv
<1>1. Stack' /\ SourceInv' /\ OutputInv'
  BY Kinds, PlainStep, IfStep, ElifStep, ElseStep, EndifStep
<1>2. TypeOK'
  <2> PICK is \in Ifstate : is = ifstate[depth]
    BY DepthAssumption DEF TypeOK
  <2> PICK f : f = trans_table(is, type, dodgy)
    OBVIOUS
  <2>1. f.keep \in BOOLEAN /\ f.text \in { "same", "if", "else", "endif" } /\ flushline(f.keep, f.text)
    BY Fates DEF Process
  <2>2. out' \in Written /\ delcount' \in 0 .. 1 /\ exitstat' \in 0 .. 2
    BY <2>1, Flushed
  <2>3. /\ opts' \in Options /\ status' \in { "running", "done", "error" } /\ incomment' \in BOOLEAN
        /\ line' \in [ type : Linetype \cup { "NONE" }, dodgy : BOOLEAN ]
    BY DEF Process, TypeOK
  <2> QED
    BY <1>1, <2>2, <2>3 DEF TypeOK, Stack
<1>3. LineInv'
  BY LineStep
<1> QED
  BY <1>1, <1>2, <1>3

(* error() and the end of the file leave the stack and both preprocessors.  *)
LEMMA EndStep ==
  ASSUME IInv,
         UNCHANGED <<opts, depth, ifstate, ignoring, delcount, src, dst, skewed>>,
         status' \in { "done", "error" }, status' = "done" => depth = 0, exitstat' \in 0 .. 2,
         incomment' \in BOOLEAN, out' = NotWritten,
         line' \in [ type : Linetype \cup { "NONE" }, dodgy : BOOLEAN ]
  PROVE  IInv'
<1> USE DEF IInv
<1>1. TypeOK'
  BY DEF TypeOK, Written, NotWritten
<1>2. SourceInv'
  BY DEF SourceInv, SourceLevel, Buried, Dropping
<1>3. OutputInv'
  BY DEF OutputInv, Plainly, Beside, Position, OutputLevel, SameGroup
<1>4. LineInv'
  BY DEF LineInv, IsWritten, NotWritten
<1> QED
  BY <1>1, <1>2, <1>3, <1>4

LEMMA RefuseStep ==
  ASSUME IInv, RefuseLine
  PROVE  IInv'
<1> PICK type \in Linetype \ { "EOF" }, dodgy \in BOOLEAN, after \in BOOLEAN :
           Refuse(type, dodgy, after) /\ UNCHANGED <<src, dst, skewed>>
  BY DEF RefuseLine
<1>1. /\ UNCHANGED <<opts, depth, ifstate, ignoring, delcount, src, dst, skewed>>
      /\ status' = "error" /\ exitstat' = 2 /\ incomment' = after /\ out' = NotWritten
      /\ line' = [ type |-> type, dodgy |-> dodgy ]
  BY DEF Refuse
<1> QED
  BY <1>1, EndStep

LEMMA EndOfFileStep ==
  ASSUME IInv, ReadEnd
  PROVE  IInv'
<1>1. /\ UNCHANGED <<opts, depth, ifstate, ignoring, delcount, incomment, src, dst, skewed>>
      /\ status' \in { "done", "error" } /\ (status' = "done" => depth = 0) /\ exitstat' \in 0 .. 2
      /\ out' = NotWritten /\ line' = [ type |-> "EOF", dodgy |-> FALSE ] /\ incomment' \in BOOLEAN
  BY DEF ReadEnd, EndOfFile, IInv, TypeOK
<1>2. line' \in [ type : Linetype \cup { "NONE" }, dodgy : BOOLEAN ]
  BY <1>1 DEF Linetype
<1> QED
  BY <1>1, <1>2, EndStep

LEMMA UnchangedStep ==
  ASSUME IInv, UNCHANGED mvars
  PROVE  IInv'
<1> USE DEF mvars, vars, IInv
<1>1. TypeOK'
  BY DEF TypeOK
<1>2. SourceInv'
  BY DEF SourceInv, SourceLevel, Buried, Dropping
<1>3. OutputInv'
  BY DEF OutputInv, Plainly, Beside, Position, OutputLevel, SameGroup
<1>4. LineInv'
  BY DEF LineInv, IsWritten, Passes, Dropping, Unnoticed
<1> QED
  BY <1>1, <1>2, <1>3, <1>4

LEMMA NextInv == IInv /\ [MNext]_mvars => IInv'
<1> SUFFICES ASSUME IInv, [MNext]_mvars PROVE IInv'
  OBVIOUS
<1>1. CASE ReadLine
  BY <1>1, ReadLineStep DEF ReadLine
<1>2. CASE RefuseLine
  BY <1>2, RefuseStep
<1>3. CASE ReadEnd
  BY <1>3, EndOfFileStep
<1>4. CASE UNCHANGED mvars
  BY <1>4, UnchangedStep
<1> QED
  BY <1>1, <1>2, <1>3, <1>4 DEF MNext, Exited

LEMMA Invariance == MSpec => []IInv
BY InitInv, NextInv, PTL DEF MSpec

-----------------------------------------------------------------------------
(* What it says of the input and the output.                                *)

(* Every variable of unifdef keeps its type: in particular, depth stays     *)
(* within the arrays of MAXDEPTH entries, and only the file itself, below   *)
(* all groups, is OUTSIDE.                                                  *)
THEOREM TypeCorrect == MSpec => []TypeOK
<1>1. IInv => TypeOK
  BY DEF IInv
<1> QED
  BY <1>1, Invariance, PTL

(* unifdef accepts no directive that does not belong where it is, and the   *)
(* directives it leaves and edits nest.                                     *)
THEOREM NestingHolds == MSpec => []Nesting
<1>1. ASSUME IInv PROVE Nesting
  <2>1. NestingChecked
    <3>1. src.groups \in Seq(PPGroup) /\ Len(src.groups) = depth /\ ~src.bad
      BY <1>1 DEF IInv, SourceInv, Preprocessor
    <3>2. status = "done" => depth = 0
      BY <1>1 DEF IInv, LineInv
    <3> QED
      BY <3>1, <3>2 DEF NestingChecked
  <2>2. OutputNests
    <3> SUFFICES ASSUME Plainly
                 PROVE  ~dst.bad /\ (status = "done" => dst.groups = <<>>)
      BY DEF OutputNests
    <3>1. dst.groups \in Seq(PPGroup) /\ ~dst.bad
      BY <1>1 DEF IInv, OutputInv, Preprocessor
    <3> PICK at : Position(at)
      BY <1>1 DEF IInv, OutputInv, Beside
    <3>2. status = "done" => Len(dst.groups) = 0
      BY <1>1 DEF IInv, LineInv, Position
    <3> QED
      BY <3>1, <3>2
  <2> QED
    BY <2>1, <2>2 DEF Nesting
<1> QED
  BY <1>1, Invariance, PTL

LEMMA SameConditions ==
  ASSUME IInv, Plainly, ~Dropping(ifstate[depth])
  PROVE  Compiled(src) <=> Compiled(dst)
<1> USE DEF IInv
<1>1. depth \in Nat /\ src.groups \in Seq(PPGroup) /\ Len(src.groups) = depth
  BY DepthAssumption DEF TypeOK, SourceInv, Preprocessor
<1> PICK at : Beside(at)
  BY DEF OutputInv
<1>2. dst.groups \in Seq(PPGroup) /\ Len(dst.groups) = at[depth] /\ at[depth] \in Nat
  BY <1>1 DEF OutputInv, Preprocessor, Beside, Position
<1>3. \A i \in 0 .. depth : ~Dropping(ifstate[i])
  BY <1>1 DEF SourceInv
<1>4. ASSUME NEW i \in 1 .. depth, ifstate[i] \in Open
      PROVE  at[i] \in 1 .. at[depth] /\ (dst.groups[at[i]].on <=> src.groups[i].on)
  <2>1. i \in 0 .. depth /\ i - 1 \in 0 .. depth /\ depth \in 0 .. depth /\ i <= depth
    BY <1>1
  <2>2. at[i] = at[i - 1] + 1 /\ at[i - 1] \in Nat /\ at[i] <= at[depth]
    BY <1>4, <2>1 DEF Beside, Position
  <2>3. OutputLevel(i, at[i]) /\ ifstate[i] # "FALSE_MIDDLE"
    BY <1>3, <1>4, <2>1 DEF Beside, Dropping
  <2> QED
    BY <1>2, <2>2, <2>3 DEF OutputLevel, SameGroup
<1>5. ASSUME NEW i \in 1 .. depth, ifstate[i] \notin Open
      PROVE  src.groups[i].on
  <2>1. i \in 0 .. depth /\ i - 1 \in 0 .. depth /\ i # 0
    BY <1>1
  <2>2. ifstate[i] \in { "TRUE_PREFIX", "TRUE_ELSE" }
    BY <1>1, <1>3, <1>5, <2>1 DEF TypeOK, Ifstate, Open, Dropping
  <2>3. SourceLevel(i) /\ ~Buried(i)
    BY <1>3, <2>1 DEF SourceInv, Buried
  <2> QED
    BY <2>2, <2>3 DEF SourceLevel
<1>6. DOMAIN src.groups = 1 .. depth /\ DOMAIN dst.groups = 1 .. at[depth]
  BY <1>1, <1>2
<1>7. ASSUME Compiled(src) PROVE Compiled(dst)
  <2> SUFFICES ASSUME NEW k \in 1 .. at[depth] PROVE dst.groups[k].on
    BY <1>6 DEF Compiled
  <2> PICK i \in 1 .. depth : ifstate[i] \in Open /\ at[i] = k
    BY DEF Beside, Position
  <2> QED
    BY <1>4, <1>6, <1>7 DEF Compiled
<1>8. ASSUME Compiled(dst) PROVE Compiled(src)
  <2> SUFFICES ASSUME NEW i \in 1 .. depth PROVE src.groups[i].on
    BY <1>6 DEF Compiled
  <2>1. CASE ifstate[i] \in Open
    BY <1>4, <1>6, <1>8, <2>1 DEF Compiled
  <2>2. CASE ifstate[i] \notin Open
    BY <1>5, <2>2
  <2> QED
    BY <2>1, <2>2
<1> QED
  BY <1>7, <1>8

(* A line is compiled in what unifdef writes exactly when it is in what it  *)
(* reads, and with -n and -l it is compiled under the number it had.        *)
THEOREM LinesKeptHolds == MSpec => []LinesKept
<1>1. ASSUME IInv PROVE SameLines
  <2> SUFFICES ASSUME Plainly, status = "running", line.type = "PLAIN"
               PROVE  Compiled(src) <=> (IsWritten /\ Compiled(dst))
    BY DEF SameLines
  <2>1. IsWritten <=> ~Dropping(ifstate[depth])
    <3>1. opts.complement \in BOOLEAN /\ ~opts.complement /\ ~opts.symlist
      BY <1>1, OptionsAssumption DEF IInv, TypeOK, OptionRecord, Plainly
    <3> QED
      BY <1>1, <3>1 DEF IInv, LineInv, Passes
  <2>2. CASE Dropping(ifstate[depth])
    <3>1. depth \in 0 .. depth /\ Len(src.groups) = depth /\ src.groups \in Seq(PPGroup)
      BY <1>1, DepthAssumption DEF IInv, TypeOK, SourceInv, Preprocessor
    <3> PICK i \in 1 .. depth : ~src.groups[i].on
      BY <1>1, <2>2, <3>1 DEF IInv, SourceInv
    <3>2. ~Compiled(src)
      BY <3>1 DEF Compiled
    <3> QED
      BY <2>1, <2>2, <3>2
  <2>3. CASE ~Dropping(ifstate[depth])
    BY <1>1, <2>1, <2>3, SameConditions
  <2> QED
    BY <2>2, <2>3
<1>2. ASSUME IInv PROVE LineNumbers
  BY <1>2 DEF IInv, LineInv, LineNumbers
<1>3. IInv => LinesKept
  BY <1>1, <1>2 DEF LinesKept
<1> QED
  BY <1>3, Invariance, PTL

(* A comment is written whole or deleted whole, but where an unknown #elif  *)
(* after a false #if becomes an #if.                                        *)
THEOREM CommentsWholeHolds == MSpec => CommentsWhole
<1> DEFINE Whole == incomment /\ status' = "running" /\ ~opts.symlist /\ ~EditedToIf /\ ~Unnoticed
                      => (IsWritten <=> IsWritten')
<1>1. ASSUME IInv, NEW type \in Linetype \ { "EOF" }, NEW dodgy \in BOOLEAN,
             NEW after \in BOOLEAN, Process(type, dodgy, after),
             incomment, ~opts.symlist, ~EditedToIf, ~Unnoticed
      PROVE  IsWritten <=> IsWritten'
  <2> USE <1>1 DEF IInv
  <2> PICK is \in Ifstate : is = ifstate[depth]
    BY DepthAssumption DEF TypeOK
  <2> PICK f : f = trans_table(is, type, dodgy)
    OBVIOUS
  <2>1. /\ f.keep \in BOOLEAN /\ f.text \in { "same", "if", "else", "endif" }
        /\ flushline(f.keep, f.text) /\ f = trans_table(ifstate[depth], type, dodgy)
    BY Fates DEF Process
  <2>2. IsWritten <=> Passes
    BY DEF LineInv, Process
  <2>3. f.keep <=> ~Dropping(ifstate[depth])
    <3>1. CASE type = "PLAIN"
      BY <3>1, PlainColumn
    <3>2. CASE type # "PLAIN"
      <4>1. type \in Directive
        BY <3>2 DEF Linetype
      <4>2. dodgy
        BY <4>1, Comments DEF Process
      <4>3. ~(type = "ELIF" /\ ifstate[depth] = "FALSE_PREFIX")
        BY DEF EditedToIf, Process
      <4> QED
        BY <2>1, <4>1, <4>2, <4>3, DodgyFate
    <3> QED
      BY <3>1, <3>2
  <2>4. IsWritten' <=> (f.keep # opts.complement)
    BY <2>1, WrittenLine
  <2>5. opts.complement \in BOOLEAN
    BY OptionsAssumption DEF TypeOK, OptionRecord
  <2> QED
    BY <2>1, <2>2, <2>3, <2>4, <2>5 DEF Passes
<1>2. IInv /\ [MNext]_mvars => [Whole]_mvars
  <2> SUFFICES ASSUME IInv, MNext, incomment, status' = "running", ~opts.symlist, ~EditedToIf, ~Unnoticed,
                      ~UNCHANGED mvars
               PROVE  IsWritten <=> IsWritten'
    OBVIOUS
  <2>1. ReadLine
    BY DEF MNext, RefuseLine, Refuse, ReadEnd, EndOfFile, Exited
  <2>2. PICK type \in Linetype \ { "EOF" }, dodgy \in BOOLEAN, after \in BOOLEAN :
               Process(type, dodgy, after)
    BY <2>1 DEF ReadLine
  <2> QED
    BY <1>1, <2>2
<1> QED
  BY <1>2, Invariance, PTL DEF MSpec, CommentsWhole
=============================================================================
