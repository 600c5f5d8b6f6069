----------------------------- MODULE MCUnifdef ------------------------------
(***************************************************************************)
(* Instances of UnifdefMeaning for TLC: the command lines they explore.    *)
(***************************************************************************)
EXTENDS UnifdefMeaning

NoOption == [o \in {"complement", "iocccok", "lnblank", "lnnum", "symlist", "text"} |-> FALSE]

CommandLines ==
  { NoOption, [NoOption EXCEPT !.iocccok = TRUE], [NoOption EXCEPT !.lnblank = TRUE],
    [NoOption EXCEPT !.iocccok = TRUE, !.lnnum = TRUE],
    [NoOption EXCEPT !.lnnum = TRUE, !.lnblank = TRUE],
    [NoOption EXCEPT !.text = TRUE], [NoOption EXCEPT !.symlist = TRUE],
    [NoOption EXCEPT !.complement = TRUE, !.lnnum = TRUE] }
=============================================================================
