------------------------------- MODULE Unifdef -------------------------------
(***************************************************************************)
(* The state machine of unifdef (meta/recipes-devtools/unifdef/files/      *)
(* unifdef.c), which removes the #if groups whose condition is known and   *)
(* keeps the rest of a C file.  A step reads one line, of the type that    *)
(* getline34 gives it (module UnifdefLine), and calls the transition       *)
(* function of trans_table for the state of the innermost group.           *)
(*                                                                         *)
(* What the functions have in common is written once, in Process: each is  *)
(* here a record of what it writes and what it does to the stack of        *)
(* groups.  The arrays ifstate and ignoring are functions over 0..depth:   *)
(* an entry above depth is written by nest and its caller before it is     *)
(* read.                                                                   *)
(***************************************************************************)
EXTENDS Naturals, Sequences

CONSTANTS
  MAXDEPTH,      (* levels of nesting, the file itself included            *)
  Options        (* the command lines explored, records as in OptionRecord *)

ASSUME DepthAssumption == MAXDEPTH \in Nat \ {0}

OptionRecord == [ complement : BOOLEAN, iocccok : BOOLEAN, lnblank : BOOLEAN,
                  lnnum : BOOLEAN, symlist : BOOLEAN, text : BOOLEAN ]

ASSUME OptionsAssumption == Options \subseteq OptionRecord

(* The types of directives; each also exists as a dodgy one, which is not   *)
(* on one line because a comment begins before it or ends after it.         *)
Directive == { "TRUEI", "FALSEI", "IF", "TRUE", "FALSE",
               "ELIF", "ELTRUE", "ELFALSE", "ELSE", "ENDIF" }
Linetype  == Directive \cup { "PLAIN", "EOF" }

Ifstate == { "OUTSIDE", "FALSE_PREFIX", "TRUE_PREFIX", "PASS_MIDDLE",
             "FALSE_MIDDLE", "TRUE_MIDDLE", "PASS_ELSE", "FALSE_ELSE",
             "TRUE_ELSE", "FALSE_TRAILER" }

VARIABLES
  opts,          (* the options                                            *)
  depth,         (* the current nesting                                    *)
  ifstate,       (* the state of each open group                           *)
  ignoring,      (* whether its comments are ignored                       *)
  incomment,     (* the line that was read last ends inside a comment      *)
  delcount,      (* lines deleted since the last one printed: 0, or 1 for   *)
                 (* any number, as it is only compared with 0              *)
  exitstat,
  status,        (* "running", or how the program ended                    *)
  line,          (* the last line: its type, and whether it is dodgy       *)
  out            (* what was written for it                                *)

vars == <<opts, depth, ifstate, ignoring, incomment, delcount, exitstat, status, line, out>>

(* A line is written as it is, with its keyword edited to if, else or       *)
(* endif, blank, or not at all.  sharp: a #line before it, with its number  *)
(* relative to the line that was read.                                      *)
Written == [ text : { "no", "blank", "same", "if", "else", "endif" },
             sharp : { {}, {0} } ]
NotWritten == [ text |-> "no", sharp |-> {} ]

TypeOK ==
  /\ opts \in Options
  /\ depth \in 0 .. MAXDEPTH - 1
  /\ ifstate \in [0 .. depth -> Ifstate]
  /\ \A d \in 0 .. depth : ifstate[d] = "OUTSIDE" <=> d = 0
  /\ ignoring \in [0 .. depth -> BOOLEAN]
  /\ incomment \in BOOLEAN
  /\ delcount \in 0 .. 1
  /\ exitstat \in 0 .. 2
  /\ status \in { "running", "done", "error" }
  /\ line \in [ type : Linetype \cup { "NONE" }, dodgy : BOOLEAN ]
  /\ out \in Written

-----------------------------------------------------------------------------
(* The transition functions.                                               *)

Keep(text, group) == [ keep |-> TRUE,  text |-> text, group |-> group, nest |-> FALSE, ignore |-> "same" ]
Discard(group)    == [ keep |-> FALSE, text |-> "same", group |-> group, nest |-> FALSE, ignore |-> "same" ]
Off(f)            == [f EXCEPT !.ignore = "off"]
On(f)             == [f EXCEPT !.ignore = "on"]
Nested(f)         == [f EXCEPT !.nest = TRUE]
Error             == Discard("error")

Eendif_Closes == Keep("same", "unnest")
Eendif == Error
print  == Keep("same", "same")
drop   == Discard("same")
Strue  == Off(Discard("TRUE_PREFIX"))
Sfalse == Off(Discard("FALSE_PREFIX"))
Selse  == Discard("TRUE_ELSE")
Pelif  == Off(Keep("same", "PASS_MIDDLE"))
Pelse  == Keep("same", "PASS_ELSE")
Dfalse == Off(Discard("FALSE_TRAILER"))
Delif  == Off(Discard("FALSE_MIDDLE"))
Delse  == Discard("FALSE_ELSE")
Pendif == Keep("same", "unnest")
Dendif == Discard("unnest")
Fdrop  == Nested(Dfalse)
Fpass  == Nested(Pelif)
Ftrue  == Nested(Strue)
Ffalse == Nested(Sfalse)
Idrop  == On(Fdrop)
Itrue  == On(Ftrue)
Ifalse == On(Ffalse)
Mpass  == Off(Keep("if", "PASS_MIDDLE"))
Mtrue  == Keep("else", "TRUE_MIDDLE")
Melif  == Keep("endif", "FALSE_TRAILER")
Melse_NotEdited == Keep("same", "FALSE_ELSE")
Melse  == Keep("endif", "FALSE_ELSE")
Oiffy  == IF opts.iocccok THEN On(Fpass) ELSE Error
Oif_Evaluated == IF opts.iocccok THEN Ffalse ELSE Error
Oif    == IF opts.iocccok THEN Fpass ELSE Error
Oelif  == IF opts.iocccok THEN Pelif ELSE Error

(* trans_table, without its columns PLAIN and EOF.                          *)
Row(truei, falsei, if, true, false, elif, eltrue, elfalse, else, endif) ==
  [ t \in Directive |->
      CASE t = "TRUEI" -> truei   [] t = "FALSEI" -> falsei [] t = "IF" -> if
        [] t = "TRUE" -> true     [] t = "FALSE" -> false   [] t = "ELIF" -> elif
        [] t = "ELTRUE" -> eltrue [] t = "ELFALSE" -> elfalse
        [] t = "ELSE" -> else     [] t = "ENDIF" -> endif ]

Dropping(is) == is \in { "FALSE_PREFIX", "FALSE_MIDDLE", "FALSE_ELSE", "FALSE_TRAILER" }

Inner(is, elif, eltrue, elfalse, else, endif) ==
  IF Dropping(is) THEN Row(Idrop, Idrop, Fdrop, Fdrop, Fdrop, elif, eltrue, elfalse, else, endif)
                  ELSE Row(Itrue, Ifalse, Fpass, Ftrue, Ffalse, elif, eltrue, elfalse, else, endif)

OneLine(is) ==
  CASE is = "OUTSIDE"       -> Inner(is, Error, Error, Error, Error, Eendif)
    [] is = "FALSE_PREFIX"  -> Inner(is, Mpass, Strue, Sfalse, Selse, Dendif)
    [] is = "TRUE_PREFIX"   -> Inner(is, Dfalse, Dfalse, Dfalse, Delse, Dendif)
    [] is = "PASS_MIDDLE"   -> Inner(is, Pelif, Mtrue, Delif, Pelse, Pendif)
    [] is = "FALSE_MIDDLE"  -> Inner(is, Pelif, Mtrue, Delif, Pelse, Pendif)
    [] is = "TRUE_MIDDLE"   -> Inner(is, Melif, Melif, Melif, Melse, Pendif)
    [] is = "PASS_ELSE"     -> Inner(is, Error, Error, Error, Error, Pendif)
    [] is = "FALSE_ELSE"    -> Inner(is, Error, Error, Error, Error, Dendif)
    [] is = "TRUE_ELSE"     -> Inner(is, Error, Error, Error, Error, Dendif)
    [] is = "FALSE_TRAILER" -> Inner(is, Dfalse, Dfalse, Dfalse, Delse, Dendif)

DodgyInner(is, elif, eltrue, elfalse, else, endif) ==
  IF Dropping(is) THEN Row(Idrop, Idrop, Fdrop, Fdrop, Fdrop, elif, eltrue, elfalse, else, endif)
                  ELSE Row(Oiffy, Oiffy, Fpass, Oif, Oif, elif, eltrue, elfalse, else, endif)

DodgyLine(is) ==
  CASE is = "FALSE_PREFIX"  -> DodgyInner(is, Mpass, Error, Error, Error, Error)
    [] is = "PASS_MIDDLE"   -> DodgyInner(is, Pelif, Oelif, Oelif, Pelse, Pendif)
    [] is = "TRUE_MIDDLE"   -> DodgyInner(is, Error, Error, Error, Error, Pendif)
    [] is = "PASS_ELSE"     -> DodgyInner(is, Error, Error, Error, Error, Pendif)
    [] is = "FALSE_TRAILER" -> DodgyInner(is, Dfalse, Dfalse, Dfalse, Delse, Error)
    [] OTHER                -> DodgyInner(is, Error, Error, Error, Error, Error)

trans_table(is, type, dodgy) ==
  CASE type = "PLAIN" -> IF Dropping(is) THEN drop ELSE print
    [] type = "EOF"   -> Error
    [] OTHER          -> IF dodgy THEN DodgyLine(is)[type] ELSE OneLine(is)[type]

-----------------------------------------------------------------------------
flushline_NotCounted(keep, text) ==
  IF opts.symlist
  THEN out' = NotWritten /\ UNCHANGED <<delcount, exitstat>>
  ELSE IF keep # opts.complement
  THEN /\ out' = [ text |-> text, sharp |-> IF opts.lnnum /\ delcount > 0 THEN {0} ELSE {} ]
       /\ delcount' = 0
       /\ UNCHANGED exitstat
  ELSE /\ out' = [ text |-> IF opts.lnblank THEN "blank" ELSE "no", sharp |-> {} ]
       /\ exitstat' = 1
       /\ UNCHANGED delcount

(* flushline: what becomes of a line.                                      *)
flushline(keep, text) ==
  IF opts.symlist
  THEN out' = NotWritten /\ UNCHANGED <<delcount, exitstat>>
  ELSE IF keep # opts.complement
  THEN /\ out' = [ text |-> text, sharp |-> IF opts.lnnum /\ delcount > 0 THEN {0} ELSE {} ]
       /\ delcount' = 0
       /\ UNCHANGED exitstat
  ELSE /\ out' = [ text |-> IF opts.lnblank THEN "blank" ELSE "no", sharp |-> {} ]
       /\ delcount' = 1
       /\ exitstat' = 1

(* ignoreoff and ignoreon, of the group that the function leaves on top.    *)
Ignore(how, d) ==
  CASE how = "off"  -> ignoring[d - 1]
    [] how = "on"   -> TRUE
    [] how = "same" -> ignoring[d]

(* state, after nest when the line begins a group.                          *)
Group(f) ==
  LET d == IF f.nest THEN depth + 1 ELSE depth
  IN CASE f.group = "same"   -> UNCHANGED <<depth, ifstate, ignoring>>
       [] f.group = "unnest" ->
            /\ depth' = depth - 1
            /\ ifstate' = [e \in 0 .. depth - 1 |-> ifstate[e]]
            /\ ignoring' = [e \in 0 .. depth - 1 |-> ignoring[e]]
       [] OTHER ->
            /\ depth' = d
            /\ ifstate' = [e \in 0 .. d |-> IF e = d THEN f.group ELSE ifstate[e]]
            /\ ignoring' = [e \in 0 .. d |-> IF e = d THEN Ignore(f.ignore, d) ELSE ignoring[e]]

(* Where comments are parsed, any line may open or close one, but a         *)
(* directive that is not dodgy closes none, and opens one unnoticed only    *)
(* behind something else, which makes its condition one that is not known.  *)
(* Where they are not, incomment stays as it is, and while it is set no     *)
(* line is taken for a directive.                                           *)
Readable(type, dodgy, after) ==
  IF opts.text \/ ignoring[depth]
  THEN ~dodgy /\ after = incomment /\ (incomment => type = "PLAIN")
  ELSE CASE type = "PLAIN" -> ~dodgy
         [] dodgy          -> incomment \/ after
         [] OTHER          -> ~incomment /\ (after => type \in { "IF", "ELIF", "ELSE", "ENDIF" })

(* A line that is handled.                                                  *)
Process(type, dodgy, after) ==
  LET f == trans_table(ifstate[depth], type, dodgy)
  IN /\ status = "running"
     /\ Readable(type, dodgy, after)
     /\ f.group # "error"
     /\ f.nest => depth + 1 < MAXDEPTH
     /\ incomment' = after
     /\ line' = [ type |-> type, dodgy |-> dodgy ]
     /\ flushline(f.keep, f.text)
     /\ Group(f)
     /\ UNCHANGED <<opts, status>>

(* error(): a directive that does not belong here, a dodgy one that cannot  *)
(* be handled, or one level too many.                                       *)
Refuse(type, dodgy, after) ==
  LET f == trans_table(ifstate[depth], type, dodgy)
  IN /\ status = "running"
     /\ Readable(type, dodgy, after)
     /\ f.group = "error" \/ (f.nest /\ depth + 1 >= MAXDEPTH)
     /\ status' = "error"
     /\ exitstat' = 2
     /\ incomment' = after
     /\ line' = [ type |-> type, dodgy |-> dodgy ]
     /\ out' = NotWritten
     /\ UNCHANGED <<opts, depth, ifstate, ignoring, delcount>>

(* The end of the file: done, or Eeof inside a group.                       *)
EndOfFile ==
  /\ status = "running"
  /\ IF depth = 0 /\ ~incomment
     THEN status' = "done" /\ UNCHANGED exitstat
     ELSE status' = "error" /\ exitstat' = 2
  /\ line' = [ type |-> "EOF", dodgy |-> FALSE ]
  /\ out' = NotWritten
  /\ UNCHANGED <<opts, depth, ifstate, ignoring, incomment, delcount>>

Init ==
  /\ opts \in Options
  /\ depth = 0
  /\ ifstate = [d \in {0} |-> "OUTSIDE"]
  /\ ignoring = [d \in {0} |-> FALSE]
  /\ incomment = FALSE
  /\ delcount = 0
  /\ exitstat = 0
  /\ status = "running"
  /\ line = [ type |-> "NONE", dodgy |-> FALSE ]
  /\ out = NotWritten
=============================================================================
