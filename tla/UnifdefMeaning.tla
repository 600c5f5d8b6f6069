--------------------------- MODULE UnifdefMeaning ---------------------------
(***************************************************************************)
(* What unifdef promises: the file it writes means what the file it reads  *)
(* means.  Unifdef runs here beside two preprocessors, one that reads the  *)
(* input and one that reads what unifdef writes.  A preprocessor is a      *)
(* stack of groups, the C standard's and no part of unifdef.  A condition  *)
(* unifdef knows has the value it knows; one it does not know may have     *)
(* either, and has the same in the input and in the output.                *)
(***************************************************************************)
EXTENDS Unifdef

VARIABLES
  src,           (* the preprocessor of the input                          *)
  dst,           (* the preprocessor of the output                         *)
  skewed         (* the number a compiler gives to the output's next line  *)
                 (* is not the one of the input's next line                *)

mvars == <<vars, src, dst, skewed>>

(* A group: whether its current branch is compiled, whether one was, and    *)
(* whether #else has been seen.  bad: a directive came where none may.      *)
PPGroup == [ on : BOOLEAN, taken : BOOLEAN, else : BOOLEAN ]
Start   == [ groups |-> <<>>, bad |-> FALSE ]

Compiled(pp) == \A i \in DOMAIN pp.groups : pp.groups[i].on

ReadDirective(pp, directive, truth) ==
  LET n     == Len(pp.groups)
      top   == pp.groups[n]
      Top(g) == [pp EXCEPT !.groups[n] = g]
      open  == n > 0
  IN CASE directive = "none" -> pp
       [] directive = "if"   -> [pp EXCEPT !.groups = Append(@, [ on |-> truth, taken |-> truth, else |-> FALSE ])]
       [] directive = "elif" /\ open /\ ~top.else  -> Top([ top EXCEPT !.on = truth /\ ~top.taken, !.taken = truth \/ top.taken ])
       [] directive = "else" /\ open /\ ~top.else  -> Top([ on |-> ~top.taken, taken |-> TRUE, else |-> TRUE ])
       [] directive = "endif" /\ open -> [pp EXCEPT !.groups = SubSeq(@, 1, n - 1)]
       [] OTHER -> [pp EXCEPT !.bad = TRUE]

DirectiveOf(type) ==
  CASE type \in { "TRUEI", "FALSEI", "IF", "TRUE", "FALSE" } -> "if"
    [] type \in { "ELIF", "ELTRUE", "ELFALSE" } -> "elif"
    [] type = "ELSE"  -> "else"
    [] type = "ENDIF" -> "endif"
    [] OTHER -> "none"

Truths(type) ==
  CASE type \in { "TRUEI", "TRUE", "ELTRUE" }    -> {TRUE}
    [] type \in { "FALSEI", "FALSE", "ELFALSE" } -> {FALSE}
    [] type \in { "IF", "ELIF" }                 -> BOOLEAN
    [] OTHER -> {TRUE}

WrittenDirective(type, text) ==
  CASE text \in { "no", "blank" } -> "none"
    [] text = "same" -> DirectiveOf(type)
    [] OTHER -> text

(* The output is the file again, not its complement or a list of symbols.   *)
Plainly == ~opts.complement /\ ~opts.symlist

(* The options under which the output keeps the input's line numbers.       *)
Numbered == (opts.lnnum \/ opts.lnblank) /\ ~opts.symlist

Observe(type, truth) ==
  /\ src' = ReadDirective(src, DirectiveOf(type), truth)
  /\ dst' = IF Plainly THEN ReadDirective(dst, WrittenDirective(type, out'.text), truth) ELSE dst
  /\ skewed' = ( /\ Numbered
                 /\ out'.text # "no" => IF out'.sharp = {} THEN skewed ELSE out'.sharp # {0} )

MInit == Init /\ src = Start /\ dst = Start /\ skewed = FALSE

ReadLine ==
  \E type \in Linetype \ {"EOF"}, dodgy \in BOOLEAN, after \in BOOLEAN :
    \E truth \in Truths(type) :
      /\ Process(type, dodgy, after)
      /\ Observe(type, truth)

RefuseLine ==
  \E type \in Linetype \ {"EOF"}, dodgy \in BOOLEAN, after \in BOOLEAN :
    /\ Refuse(type, dodgy, after)
    /\ UNCHANGED <<src, dst, skewed>>

ReadEnd == EndOfFile /\ UNCHANGED <<src, dst, skewed>>

Exited == status # "running" /\ UNCHANGED mvars

MNext == ReadLine \/ RefuseLine \/ ReadEnd \/ Exited

MSpec == MInit /\ [][MNext]_mvars

-----------------------------------------------------------------------------
IsWritten == out.text \in { "same", "if", "else", "endif" }

(* A plain line is compiled in the input exactly when it is written and     *)
(* compiled in the output, whatever the unknown conditions are: over        *)
(* deleted groups, #elif edited to #if or #else, and #elif and #else edited *)
(* to #endif.                                                               *)
SameLines ==
  (Plainly /\ status = "running" /\ line.type = "PLAIN")
    => (Compiled(src) <=> (IsWritten /\ Compiled(dst)))

(* The directives that are left and edited nest: no #elif or #else without  *)
(* a group or after #else, no #endif too many, and none missing at the end. *)
OutputNests ==
  Plainly => /\ ~dst.bad
             /\ status = "done" => dst.groups = <<>>

(* unifdef accepts no directive that does not belong where it is, also in   *)
(* groups it drops or has edited, and knows at the end that all are closed; *)
(* its depth is that of the input.                                          *)
NestingChecked ==
  /\ ~src.bad
  /\ depth = Len(src.groups)
  /\ status = "done" => src.groups = <<>>

(* Both: the groups of the input and those of the output are groups.        *)
Nesting == OutputNests /\ NestingChecked

(* A compiler gives each line of the output the number it had in the input, *)
(* with -n, with -l, and with both.                                         *)
LineNumbers == (Numbered /\ IsWritten) => ~skewed

(* Both: the lines a compiler would see, each with the number it had.       *)
LinesKept == SameLines /\ LineNumbers

(* A comment is kept whole or deleted whole: a line that begins inside one  *)
(* is written when the line before it was.  "We can handle them correctly   *)
(* only if there is no change from printing to dropping (or vice versa)     *)
(* caused by that directive" (unifdef.c:331-333, of dodgy ones); but an     *)
(* unknown #elif after a false #if is edited to #if also when a line before *)
(* it, of another fate, opened the comment that ends there, and a comment   *)
(* opened behind something else on an #elif, #else or #endif goes unnoticed *)
(* where that line and the next have different fates.                       *)
EditedToIf == line'.type = "ELIF" /\ ifstate[depth] = "FALSE_PREFIX"
Unnoticed  == line.type \in { "ELIF", "ELSE", "ENDIF" } /\ ~line.dodgy

CommentsWhole ==
  [][ incomment /\ status' = "running" /\ ~opts.symlist /\ ~EditedToIf /\ ~Unnoticed
        => (IsWritten <=> IsWritten') ]_mvars
=============================================================================
