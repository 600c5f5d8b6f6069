---------------------------- MODULE MCAlgorithms ----------------------------
(***************************************************************************)
(* Bounded inputs of the algorithms of the programs in C.  UnifdefLine     *)
(* gets the lines of up to MaxTokens tokens, after nothing or after a      *)
(* directive's beginning, ended by a newline or a continuation; RawFlash   *)
(* images of every size, in every pattern of reads; PosixTime the limits   *)
(* of its numbers.  The others compute something from an input that never  *)
(* changes: a condition of unifdef, a device table, a block of a page.     *)
(***************************************************************************)
EXTENDS UnifdefLine, RawFlash, PosixTime

CONSTANTS MaxTokens, MaxEntries

VARIABLE input
mvars == <<lvars, fvars, dvars, input>>

Expr  == INSTANCE UnifdefExpr
Table == INSTANCE MakeDevs
Ecc   == INSTANCE FlashEcc

NoInput   == [ of |-> "line" ]
Flash     == [ of |-> "flash" ]
ADate     == [ of |-> "date" ]
Is(what)  == input.of = what

-----------------------------------------------------------------------------
Marks == { "/", "*", "#", "'", "quote", "bs", "sp", "x" }

(* A blank or a mark separates words.                                       *)
Separated(s) == \A i \in 1 .. Len(s) - 1 : ~(s[i] \in Words /\ s[i + 1] \in Words)

Beginnings == { <<>>, <<"#", "ifdef", "sp", "A">>, <<"#", "endif">> }

MCLines ==
  { s \in { b \o t \o <<e>> : b \in Beginnings, e \in { "nl", "cont" },
              t \in UNION { [1 .. n -> Marks \cup { "ifdef", "A" }] : n \in 0 .. MaxTokens } } :
      Separated(s) /\ IsLine(s) }

(* -UA -DA=2 -UB -DE: the last option for A counts.                         *)
Define(s, v) == [ sym |-> s, value |-> v ]
CommandLines ==
  { <<Define("A", Expr!Undef), Define("A", 2), Define("B", Expr!Undef), Define("E", Expr!Empty)>>,
    <<Define("B", 1)>>, <<>> }

Operators == UNION { Expr!eval_ops[p] : p \in DOMAIN Expr!eval_ops }
Defined(s) == <<"defined", "(", s, ")">>

Atoms  == { Expr!Leaf(t) : t \in { <<"0">>, <<"2">>, <<"7">>, <<"A">>, <<"E">>, <<"U">>, Defined("B"), Defined("E") } }
Few    == { Expr!Leaf(t) : t \in { <<"1">>, <<"A">>, <<"U">>, Defined("B") } }
Pairs(S, T) == { Expr!Not(e) : e \in S } \cup { Expr!Binary(op, l, r) : op \in Operators, l \in S, r \in T }
Conditions == Atoms \cup Pairs(Atoms, Atoms) \cup Pairs(Pairs(Few, Few), Few) \cup Pairs(Few, Pairs(Few, Few))

ConditionInputs ==
  [ of : {"condition"}, options : CommandLines, e : Conditions, killconsts : {TRUE} ] \cup
  [ of : {"condition"}, options : CommandLines, e : Pairs(Atoms, Atoms), killconsts : {FALSE} ]

(* The limits of every pair of digits, with the years around which the      *)
(* century, the leap years and the count of the days turn.                  *)
Years == { <<>>, <<0>>, <<68>>, <<69>>, <<72>>, <<99>>, <<0, 0>>, <<16, 0>>, <<19, 0>>, <<19, 69>>, <<20, 0>>,
           <<99, 99>>, <<20, 0, 0>> }
MonthDays == { <<m, d>> : m \in {0, 1, 2, 4, 12, 13, 24}, d \in {0, 1, 28, 29, 30, 31, 32, 99} }
Clocks    == { <<h, m>> : h \in {0, 23, 24}, m \in {0, 59, 60} }

MCDates ==
  { [ bits |-> bits,
      s |-> [ pairs |-> IF "LEADING_YEAR" \in bits THEN y \o md \o hm ELSE md \o hm \o y, sec |-> sec ] ] :
      bits \in Formats, y \in Years, md \in MonthDays, hm \in Clocks, sec \in {NoSeconds, 0, 59, 60} }

AnyDate == CHOOSE d \in MCDates : TRUE
NoDate  == date = AnyDate /\ answer = NotRead

(* Tables over a few names, in a root that is empty or has some of them.    *)
Dev    == Table!Path("", "dev", Table!NoNumber)
Console == Table!Path("dev", "console", Table!NoNumber)
Tty    == Table!Path("dev", "tty", Table!NoNumber)
File   == Table!Path("", "init", Table!NoNumber)
Entry(path, type, owner) ==
  [ path |-> path, type |-> type, owner |-> owner, major |-> 4, minor |-> 8,
    start |-> 0, increment |-> 1, count |-> 0 ]
Entries ==
  { Entry(Dev, "d", "root"), Entry(Dev, "d", "daemon"), Entry(Console, "c", "tty"), Entry(Console, "f", "root"),
    Entry(Tty, "c", "tty"), Entry(Tty, "b", "root"), Entry([Tty EXCEPT !.n = 1], "c", "tty"),
    Entry(Table!Path("dev", "log", Table!NoNumber), "p", "root"), Entry(File, "f", "daemon"),
    [Entry(Tty, "c", "tty") EXCEPT !.count = 3],
    [Entry(Tty, "c", "root") EXCEPT !.count = 4, !.start = 1, !.increment = 2],
    [Entry(Tty, "b", "tty") EXCEPT !.count = 2, !.start = 2] }

EmptyRoot == [ p \in {} |-> {} ]
DevRoot == Table!Made(EmptyRoot, Dev, "d", Table!NoDevice)
RootWith(type) == Table!Made(Table!Made(DevRoot, File, "f", Table!NoDevice), Console, type, Table!NoDevice)
Roots == { EmptyRoot, DevRoot, RootWith("f"), RootWith("c") }

TableInputs ==
  [ of : {"table"}, fs : Roots, table : UNION { [1 .. n -> Entries] : n \in 0 .. MaxEntries } ]

(* Every bit of a block, alone and with some other bit.                     *)
Blocks == { {}, { <<0, {0, 7}>>, <<170, {1, 2, 4}>>, <<255, 0 .. 7>> } }
BlockInputs ==
  { [ of |-> "block", block |-> b, wrong |-> w ] : b \in Blocks,
      w \in { {} } \cup { { <<i, k>> } \cup other : i \in Ecc!Block, k \in Ecc!Bits,
                            other \in { {}, {<<0, 0>>}, {<<170, 5>>}, {<<255, 7>>} } } }

-----------------------------------------------------------------------------
(* A flash of four pages of two blocks, the partition table in two blocks.  *)
MCInit ==
  /\ Init /\ FlashInit
  /\ \/ input = NoInput /\ size = 0 /\ NoDate
     \/ input = Flash /\ NoDate
     \/ input = ADate /\ size = 0 /\ DateInit
     \/ input \in ConditionInputs \cup TableInputs \cup BlockInputs /\ size = 0 /\ NoDate

MCNext ==
  /\ UNCHANGED input
  /\ \/ Is("line") /\ Next /\ UNCHANGED <<fvars, dvars>>
     \/ Is("flash") /\ FlashNext /\ UNCHANGED <<lvars, dvars>>
     \/ Is("date") /\ DateNext /\ UNCHANGED <<lvars, fvars>>
     \/ /\ ~Is("line") /\ (Is("flash") => Over) /\ (Is("date") => answer # NotRead)
        /\ UNCHANGED <<lvars, fvars, dvars>>

MCSpec == MCInit /\ [][MCNext]_mvars

(* A condition on known symbols is decided, rightly, and no other.          *)
ConditionsDecided == Is("condition") => Expr!Decides(input.options, input.e, input.killconsts)

(* A device table is put into a root as it says, and once more to no effect,*)
(* if it lists only regular files that are there.                           *)
TablesPutIn == Is("table") => Table!TablePutIn(input.fs, input.table)

(* The code of a block tells which bit of it is wrong.                      *)
WrongBitsLocated == Is("block") => Ecc!BitsLocated(input.block, input.wrong)
=============================================================================
