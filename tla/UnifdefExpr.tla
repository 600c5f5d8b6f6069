---------------------------- MODULE UnifdefExpr -----------------------------
(***************************************************************************)
(* The conditions of #if and #elif: ifeval of unifdef.c with the table of  *)
(* its operators, over the symbols addsym entered, beside the value a C    *)
(* preprocessor gives to the expression.  An expression comes as a         *)
(* sequence of tokens; its comments are gone (skipcomment is in            *)
(* UnifdefLine).  An int has three bits here; the number "7" has more.     *)
(***************************************************************************)
EXTENDS Integers, Sequences, SequencesExt

Bound == 4                       (* an int is in -Bound .. Bound - 1        *)
ToInt(n) == ((n + Bound) % (2 * Bound)) - Bound
Numbers == [ t \in { "0", "1", "2", "7" } |->
               CASE t = "0" -> 0 [] t = "1" -> 1 [] t = "2" -> 2 [] t = "7" -> 7 ]

Symbols == { "A", "B", "E", "U" }

(* The options -D and -U in their order, each naming its symbol.  addsym    *)
(* keeps the last one of a symbol.  A value is a number, or one of two that *)
(* are none: that of -DE, and the NULL of -U.                               *)
Empty == -1
Undef == -2

addsym(table, option) ==
  [ s \in DOMAIN table \cup { option.sym } |-> IF s = option.sym THEN option.value ELSE table[s] ]

NoSymbol == [ s \in {} |-> Empty ]
SymbolTable(options) == FoldLeft(addsym, NoSymbol, options)

-----------------------------------------------------------------------------
(* The operators, with the loosest first.                                  *)
eval_ops_Swapped == << {"&&"}, {"||"}, {"==", "!="}, {"<=", ">=", "<", ">"} >>
eval_ops == << {"||"}, {"&&"}, {"==", "!="}, {"<=", ">=", "<", ">"} >>

Truth(b) == IF b THEN 1 ELSE 0

fn(op, a, b) ==
  CASE op = "||" -> Truth(a # 0 \/ b # 0)  [] op = "&&" -> Truth(a # 0 /\ b # 0)
    [] op = "==" -> Truth(a = b)           [] op = "!=" -> Truth(a # b)
    [] op = "<=" -> Truth(a <= b)          [] op = ">=" -> Truth(a >= b)
    [] op = "<"  -> Truth(a < b)           [] op = ">"  -> Truth(a > b)

(* LT_IF: the expression cannot be evaluated.  keep: keepthis.              *)
Unknown(keep) == [ known |-> FALSE, val |-> 0, at |-> 0, keep |-> keep ]
Known(val, at, keep) == [ known |-> TRUE, val |-> val, at |-> at, keep |-> keep ]

RECURSIVE eval_unary(_, _, _, _), eval_table(_, _, _, _, _), Inner(_, _, _, _, _)

eval_unary(s, i, keep, table) ==
  LET At(j) == IF j <= Len(s) THEN s[j] ELSE "end"
  IN CASE At(i) = "!" ->
            LET e == eval_unary(s, i + 1, keep, table)
            IN IF e.known THEN [e EXCEPT !.val = Truth(@ = 0)] ELSE e
       [] At(i) = "(" ->
            LET e == eval_table(s, i + 1, 1, keep, table)
            IN IF e.known /\ At(e.at) = ")" THEN [e EXCEPT !.at = @ + 1] ELSE Unknown(e.keep)
       [] At(i) \in DOMAIN Numbers -> Known(ToInt(Numbers[At(i)]), i + 1, keep)
       [] At(i) = "defined" ->
            IF At(i + 1) = "(" /\ At(i + 2) \in DOMAIN table /\ At(i + 3) = ")"
            THEN Known(Truth(table[At(i + 2)] # Undef), i + 4, FALSE)
            ELSE Unknown(keep)
       [] At(i) \in DOMAIN table /\ table[At(i)] # Empty ->
            Known(IF table[At(i)] = Undef THEN 0 ELSE ToInt(table[At(i)]), i + 1, FALSE)
       [] OTHER -> Unknown(keep)

Inner(s, i, level, keep, table) ==
  IF level = Len(eval_ops) THEN eval_unary(s, i, keep, table)
                           ELSE eval_table(s, i, level + 1, keep, table)

eval_table(s, i, level, keep, table) ==
  LET RECURSIVE Chain(_)
      Chain(a) ==
        IF a.known /\ a.at <= Len(s) /\ s[a.at] \in eval_ops[level]
        THEN LET b == Inner(s, a.at + 1, level, a.keep, table)
             IN IF b.known THEN Chain([b EXCEPT !.val = fn(s[a.at], a.val, @)]) ELSE b
        ELSE a
  IN Chain(Inner(s, i, level, keep, table))

(* What getline34 makes of the rest of an #if line: ifeval, and LT_IF when  *)
(* something is left on the line.  killconsts is -k.                        *)
ifeval(s, killconsts, table) ==
  LET e == eval_table(s, 1, 1, ~killconsts, table)
  IN IF ~e.known \/ e.keep \/ e.at # Len(s) + 1 THEN "IF"
     ELSE IF e.val # 0 THEN "TRUE" ELSE "FALSE"

-----------------------------------------------------------------------------
(* The reference: expressions as trees, written down with the parentheses   *)
(* C's precedence needs, and their value.                                   *)
Leaf(tokens)         == [ op |-> "leaf", tokens |-> tokens ]
Not(e)               == [ op |-> "!", arg |-> e ]
Binary(op, l, r)     == [ op |-> op, left |-> l, right |-> r ]

Prec(op) == IF op \in { "leaf", "!" } THEN 5
            ELSE CHOOSE p \in 1 .. 4 : op \in << {"||"}, {"&&"}, {"==", "!="}, {"<", ">", "<=", ">="} >>[p]

RECURSIVE Tokens(_), Value(_, _)
Tokens(e) ==
  LET In(f, p) == IF Prec(f.op) < p THEN <<"(">> \o Tokens(f) \o <<")">> ELSE Tokens(f)
  IN CASE e.op = "leaf" -> e.tokens
       [] e.op = "!"    -> <<"!">> \o In(e.arg, 5)
       [] OTHER         -> In(e.left, Prec(e.op)) \o <<e.op>> \o In(e.right, Prec(e.op) + 1)

(* env: the value of each symbol, Undef if it has none.                     *)
Value(e, env) ==
  CASE e.op = "leaf" ->
         ( CASE e.tokens[1] \in DOMAIN Numbers -> Numbers[e.tokens[1]]
             [] e.tokens[1] = "defined" -> Truth(env[e.tokens[3]] # Undef)
             [] OTHER -> IF env[e.tokens[1]] = Undef THEN 0 ELSE env[e.tokens[1]] )
    [] e.op = "!"  -> Truth(Value(e.arg, env) = 0)
    [] OTHER ->
         LET l == Value(e.left, env)
             r == Value(e.right, env)
         IN Truth(CASE e.op = "||" -> l # 0 \/ r # 0 [] e.op = "&&" -> l # 0 /\ r # 0
                    [] e.op = "==" -> l = r [] e.op = "!=" -> l # r [] e.op = "<" -> l < r
                    [] e.op = ">" -> l > r [] e.op = "<=" -> l <= r [] e.op = ">=" -> l >= r)

(* Whatever the symbols no option names are defined to.  An empty symbol    *)
(* leaves no valid condition but under defined.                             *)
Environments(table) ==
  { env \in [Symbols -> { Undef, 0, 1, 2 }] :
      \A s \in DOMAIN table : env[s] = IF table[s] = Empty THEN 0 ELSE table[s] }

RECURSIVE Leaves(_)
Leaves(e) ==
  CASE e.op = "leaf" -> { e.tokens }
    [] e.op = "!"    -> Leaves(e.arg)
    [] OTHER         -> Leaves(e.left) \cup Leaves(e.right)

InRange(e) == <<"7">> \notin Leaves(e)

SymbolOf(leaf) == IF leaf[1] = "defined" THEN {leaf[3]} ELSE {leaf[1]} \cap Symbols

(* A condition that unifdef decides has that value whatever the symbols it  *)
(* was not told are; it decides every condition on symbols it was told, and *)
(* none that holds no symbol (without -k); in the range of an int.          *)
Decides(options, e, killconsts) ==
  LET table   == SymbolTable(options)
      symbols == UNION { SymbolOf(l) : l \in Leaves(e) }
      valued  == \A l \in Leaves(e) :
                   SymbolOf(l) \subseteq { s \in DOMAIN table : Len(l) > 1 \/ table[s] # Empty }
      type    == ifeval(Tokens(e), killconsts, table)
  IN InRange(e) =>
       /\ type # "IF" => \A env \in Environments(table) : (type = "TRUE") <=> (Value(e, env) # 0)
       /\ type # "IF" <=> (valued /\ (symbols # {} \/ killconsts))
=============================================================================
