---------------------------- MODULE UnifdefLine -----------------------------
(***************************************************************************)
(* How unifdef reads a line: getline34 and skipcomment of unifdef.c, which *)
(* find the directives of a C file without splicing its lines or removing  *)
(* its comments first, beside a reader that does both, as the C standard   *)
(* has it.  A character that matters is a token; so are the words a        *)
(* directive is made of.  "cont" is a backslash before a newline, "bs" any *)
(* other backslash, "x" any other character that is not a space.  A step   *)
(* is a turn of skipcomment's loop, or what getline34 does between two     *)
(* calls of it.                                                            *)
(***************************************************************************)
EXTENDS Naturals, Sequences

CONSTANTS Lines          (* the lines that are fed to it                    *)

Keywords == { "ifdef", "else", "endif" }
Words    == Keywords \cup { "A", "U" }   (* -DA was given, nothing of U     *)
Ends     == { "nl", "cont" }
Tokens   == Words \cup Ends \cup { "/", "*", "#", "'", "quote", "bs", "sp", "x" }

(* What fgets returns: a line and its end.                                  *)
IsLine(s) ==
  /\ s \in Seq(Tokens) /\ s # <<>>
  /\ \A i \in 1 .. Len(s) : s[i] \in Ends <=> i = Len(s)
  /\ \A i \in 1 .. Len(s) - 1 : s[i] = "bs" => s[i + 1] # "nl"

ASSUME LinesAssumption == \A s \in Lines : IsLine(s)

VARIABLES
  incomment,     (* state of the comment parser                            *)
  linestate,     (* state of the parser of directives                      *)
  cp,            (* what is left of tline from cp on                       *)
  pc,            (* where getline34 is: which call of skipcomment          *)
  wascomment,    (* incomment at the beginning of the line                 *)
  retval,        (* the type of the line                                   *)
  ref            (* the reader that splices lines and removes comments     *)

lvars == <<incomment, linestate, cp, pc, wascomment, retval, ref>>

Comments == { "NO", "CXX", "C", "STARTING", "FINISHING", "CHAR", "STRING" }
Types    == { "PLAIN", "TRUE", "IF", "ELSE", "ENDIF" }
Calls    == { "begin", "hash", "argument", "ending", "tail" }

-----------------------------------------------------------------------------
(* The reader of the C standard: lines are spliced, comments are spaces, a  *)
(* directive is a line that begins with #.  kw: the keyword of a directive  *)
(* was on the last physical line; behind: what has followed it; odd: a      *)
(* splice came between # and the keyword, which getline34 does not take for *)
(* a directive; entered: where the reader was when the line began.          *)
Modes  == { "code", "slash", "line", "block", "star", "char", "charesc", "string", "stringesc" }
Phases == { "start", "hash", "dirty" } \cup Keywords

ReaderType ==
  [ mode : Modes, phase : Phases, kw : Types, behind : { "nothing", "junk" } \cup Words,
    odd : BOOLEAN, entered : { "code", "inside", "odd" }, valid : BOOLEAN ]

Reader == [ mode |-> "code", phase |-> "start", kw |-> "PLAIN", behind |-> "nothing",
            odd |-> FALSE, entered |-> "code", valid |-> TRUE ]

TypeOfWord(w) ==
  IF w = "ifdef" THEN "IF" ELSE IF w = "else" THEN "ELSE" ELSE IF w = "endif" THEN "ENDIF" ELSE "PLAIN"

(* A literal counts for nothing behind a keyword.                           *)
Behind(r, t) ==
  IF t \in { "'", "quote" } THEN r.behind
  ELSE IF r.phase = "ifdef" /\ r.behind = "nothing" /\ t \in Words THEN t ELSE "junk"

Visible(r, t) ==
  IF r.phase = "start" THEN [r EXCEPT !.phase = IF t = "#" THEN "hash" ELSE "dirty"]
  ELSE IF r.phase = "hash"
  THEN [r EXCEPT !.phase = IF t \in Keywords THEN t ELSE "dirty", !.kw = TypeOfWord(t), !.behind = "nothing"]
  ELSE IF r.phase \in Keywords THEN [r EXCEPT !.behind = Behind(r, t)]
  ELSE r

InCode(r, t) ==
  IF t = "nl" THEN [r EXCEPT !.mode = "code", !.phase = "start", !.odd = FALSE]
  ELSE IF t = "/" THEN [r EXCEPT !.mode = "slash"]
  ELSE IF t = "sp" THEN [r EXCEPT !.mode = "code"]
  ELSE [Visible(r, t) EXCEPT !.mode = IF t = "'" THEN "char" ELSE IF t = "quote" THEN "string" ELSE "code"]

InComment(r, t) ==
  IF r.mode = "line" THEN (IF t = "nl" THEN InCode(r, t) ELSE r)
  ELSE [r EXCEPT !.mode = IF t = "*" THEN "star"
                          ELSE IF r.mode = "star" /\ t = "/" THEN "code" ELSE "block"]

InLiteral(r, t) ==
  IF r.mode = "charesc" THEN [r EXCEPT !.mode = "char"]
  ELSE IF r.mode = "stringesc" THEN [r EXCEPT !.mode = "string"]
  ELSE IF t = "nl" THEN [r EXCEPT !.valid = FALSE]
  ELSE IF t = (IF r.mode = "char" THEN "'" ELSE "quote") THEN [r EXCEPT !.mode = "code"]
  ELSE IF t = "bs" THEN [r EXCEPT !.mode = IF r.mode = "char" THEN "charesc" ELSE "stringesc"]
  ELSE r

Read(r, t) ==
  IF t = "cont" THEN [r EXCEPT !.odd = r.odd \/ r.phase = "hash"]
  ELSE IF r.mode = "code" THEN InCode(r, t)
  ELSE IF r.mode = "slash"
  THEN (IF t = "/" THEN [r EXCEPT !.mode = "line"]
        ELSE IF t = "*" THEN [r EXCEPT !.mode = "block"] ELSE InCode(Visible(r, "/"), t))
  ELSE IF r.mode \in { "line", "block", "star" } THEN InComment(r, t) ELSE InLiteral(r, t)

ReadOn(n) ==
  IF n = 0 THEN ref ELSE IF n = 1 THEN Read(ref, cp[1]) ELSE Read(Read(ref, cp[1]), cp[2])

(* A physical line begins.                                                  *)
LineBegins(r) ==
  [r EXCEPT !.kw = "PLAIN",
            !.entered = IF r.odd THEN "odd" ELSE IF r.mode = "code" THEN "code" ELSE "inside"]

-----------------------------------------------------------------------------
(* skipcomment.                                                             *)
Char(n) == IF n <= Len(cp) THEN cp[n] ELSE "end"

(* It returns: at the end, or at what is neither blank nor a comment.       *)
Stopped ==
  \/ cp = <<>>
  \/ /\ incomment = "NO"
     /\ Char(1) \notin Ends \cup { "'", "quote", "sp" }
     /\ ~(Char(1) = "/" /\ Char(2) \in { "cont", "*", "/" })

(* cp += n, by whoever does it.                                             *)
Take(n) == cp' = SubSeq(cp, n + 1, Len(cp)) /\ ref' = ReadOn(n)

Go(n, in, ls) ==
  /\ Take(n)
  /\ incomment' = in /\ linestate' = ls
  /\ UNCHANGED <<pc, wascomment, retval>>

NoComment ==
  /\ incomment = "NO"
  /\ \/ Char(1) = "/" /\ Char(2) = "cont" /\ Go(2, "STARTING", linestate)
     \/ Char(1) = "/" /\ Char(2) = "*" /\ Go(2, "C", linestate)
     \/ Char(1) = "/" /\ Char(2) = "/" /\ Go(2, "CXX", linestate)
     \/ Char(1) = "'" /\ Go(1, "CHAR", "DIRTY")
     \/ Char(1) = "quote" /\ Go(1, "STRING", "DIRTY")
     \/ Char(1) = "nl" /\ Go(1, "NO", "START")
     \/ Char(1) = "sp" /\ Go(1, "NO", linestate)

CxxComment ==
  /\ incomment = "CXX"
  /\ \/ Char(1) = "nl" /\ Go(1, "NO", "START")
     \/ Char(1) # "nl" /\ Go(1, "CXX", linestate)

Quote == IF incomment = "CHAR" THEN "'" ELSE "quote"

Literal ==
  /\ incomment \in { "CHAR", "STRING" }
  /\ \/ Char(1) = Quote /\ Go(1, "NO", linestate)
     \/ Char(1) = "bs" /\ Char(2) # "cont" /\ Go(2, incomment, linestate)
     \/ Char(1) \notin { Quote, "bs", "nl" } /\ Go(1, incomment, linestate)

CComment ==
  /\ incomment = "C"
  /\ \/ Char(1) = "*" /\ Char(2) = "cont" /\ Go(2, "FINISHING", linestate)
     \/ Char(1) = "*" /\ Char(2) = "/" /\ Go(2, "NO", linestate)
     \/ ~(Char(1) = "*" /\ Char(2) \in { "cont", "/" }) /\ Go(1, "C", linestate)

StartingComment_Clean ==   \* a slash that begins no comment forgotten
  /\ incomment = "STARTING"
  /\ \/ Char(1) = "*" /\ Go(1, "C", linestate)
     \/ Char(1) = "/" /\ Go(1, "CXX", linestate)
     \/ Char(1) \notin { "*", "/" } /\ Go(0, "NO", linestate)

StartingComment ==
  /\ incomment = "STARTING"
  /\ \/ Char(1) = "*" /\ Go(1, "C", linestate)
     \/ Char(1) = "/" /\ Go(1, "CXX", linestate)
     \/ Char(1) \notin { "*", "/" } /\ Go(0, "NO", "DIRTY")

FinishingComment ==
  /\ incomment = "FINISHING"
  /\ \/ Char(1) = "/" /\ Go(1, "NO", linestate)
     \/ Char(1) # "/" /\ Go(0, "C", linestate)

SkipComment ==
  /\ pc \in Calls /\ ~Stopped
  /\ \/ Char(1) = "cont" /\ Go(1, incomment, linestate)
     \/ /\ Char(1) # "cont"
        /\ NoComment \/ CxxComment \/ Literal \/ CComment \/ StartingComment \/ FinishingComment

Error == pc' = "error" /\ UNCHANGED <<incomment, linestate, cp, wascomment, retval, ref>>

(* A newline, after a backslash or not, ends no literal.                    *)
Unterminated ==
  /\ pc \in Calls /\ incomment \in { "CHAR", "STRING" }
  /\ Char(1) = "nl" \/ (Char(1) = "bs" /\ Char(2) = "cont")
  /\ Error

-----------------------------------------------------------------------------
(* getline34, from one call of skipcomment to the next.                     *)
Returned(call) == pc = call /\ Stopped

Fgets ==
  /\ pc = "fgets"
  /\ cp' \in Lines
  /\ pc' = "begin"
  /\ wascomment' = incomment
  /\ retval' = [ type |-> "PLAIN", dodgy |-> FALSE ]
  /\ ref' = LineBegins(ref)
  /\ UNCHANGED <<incomment, linestate>>

(* The beginning of a line, after the comments before it: a # or not.       *)
Begin ==
  /\ Returned("begin")
  /\ pc' = "hash"
  /\ \/ linestate = "START" /\ Char(1) = "#" /\ linestate' = "HASH" /\ Take(1)
     \/ linestate = "START" /\ Char(1) \notin { "#", "end" } /\ linestate' = "DIRTY" /\ Take(0)
     \/ (linestate # "START" \/ Char(1) = "end") /\ UNCHANGED linestate /\ Take(0)
  /\ UNCHANGED <<incomment, wascomment, retval>>

IsDirective == incomment = "NO" /\ linestate = "HASH"

NoDirective ==
  /\ Returned("hash") /\ ~IsDirective
  /\ pc' = "tail"
  /\ UNCHANGED <<incomment, linestate, cp, wascomment, retval, ref>>

(* No way can we deal with a continuation inside a keyword.                 *)
Split == Char(1) \in Words /\ Char(2) = "cont"

Eioccc == Returned("hash") /\ IsDirective /\ Split /\ Error

(* skipsym.                                                                 *)
SkipSym == Take(IF Char(1) \in Words THEN 1 ELSE 0)

Keyword ==
  /\ Returned("hash") /\ IsDirective /\ ~Split
  /\ \/ Char(1) = "ifdef" /\ pc' = "argument" /\ UNCHANGED <<linestate, retval>>
     \/ /\ Char(1) \in { "else", "endif" } /\ pc' = "ending" /\ UNCHANGED linestate
        /\ retval' = [retval EXCEPT !.type = TypeOfWord(Char(1))]
     \/ Char(1) \notin Keywords /\ pc' = "ending" /\ linestate' = "DIRTY" /\ UNCHANGED retval
  /\ SkipSym
  /\ UNCHANGED <<incomment, wascomment>>

Argument ==
  /\ Returned("argument")
  /\ pc' = "ending"
  /\ retval' = [retval EXCEPT !.type = IF Char(1) = "A" THEN "TRUE" ELSE "IF"]
  /\ SkipSym
  /\ UNCHANGED <<incomment, linestate, wascomment>>

Ending_OfThisLine ==   \* wascomment forgotten
  /\ Returned("ending")
  /\ LET junk  == Char(1) # "end"
         type  == IF junk /\ retval.type = "TRUE" THEN "IF" ELSE retval.type
         dodgy == type # "PLAIN" /\ incomment # "NO"
     IN /\ retval' = [ type |-> type, dodgy |-> dodgy ]
        /\ linestate' = IF junk \/ (dodgy /\ incomment # "NO") THEN "DIRTY" ELSE linestate
        /\ pc' = IF linestate' = "HASH" THEN "abort" ELSE "tail"
  /\ UNCHANGED <<incomment, cp, wascomment, ref>>

(* What else is on the line, and whether a comment reaches into it or       *)
(* begins there.                                                            *)
Ending ==
  /\ Returned("ending")
  /\ LET junk  == Char(1) # "end"
         type  == IF junk /\ retval.type = "TRUE" THEN "IF" ELSE retval.type
         dodgy == type # "PLAIN" /\ (wascomment # "NO" \/ incomment # "NO")
     IN /\ retval' = [ type |-> type, dodgy |-> dodgy ]
        /\ linestate' = IF junk \/ (dodgy /\ incomment # "NO") THEN "DIRTY" ELSE linestate
        /\ pc' = IF linestate' = "HASH" THEN "abort" ELSE "tail"
  /\ UNCHANGED <<incomment, cp, wascomment, ref>>

(* There is a rest, in which no directive can be any more.                  *)
Dirty == linestate = "DIRTY" /\ cp # <<>>

SkipRest ==
  /\ Returned("tail") /\ Dirty
  /\ Take(1)
  /\ UNCHANGED <<incomment, linestate, pc, wascomment, retval>>

Return ==
  /\ Returned("tail") /\ ~Dirty
  /\ pc' = "fgets" /\ cp' = <<>>
  /\ UNCHANGED <<incomment, linestate, wascomment, retval, ref>>

getline34 ==
  \/ Fgets \/ Begin \/ NoDirective \/ Keyword \/ Argument \/ Ending \/ SkipRest \/ Return
  \/ Eioccc \/ Unterminated

Exited == pc \in { "error", "abort" } /\ UNCHANGED lvars

Init ==
  /\ incomment = "NO"
  /\ linestate = "START"
  /\ cp = <<>> /\ pc = "fgets" /\ wascomment = "NO"
  /\ retval = [ type |-> "PLAIN", dodgy |-> FALSE ]
  /\ ref = Reader

Next == getline34 \/ SkipComment \/ Exited

Spec == Init /\ [][Next]_lvars

-----------------------------------------------------------------------------
(* What the two states kept from one line to the next mean: line by line    *)
(* and comment by comment, the parser is where a reader is that spliced the *)
(* lines and removed the comments, in particular after a slash or a star    *)
(* that a line continuation separates from what makes it a comment.         *)
WhereTheReaderIs ==
  pc = "fgets" =>
    /\ ref.valid
    /\ << incomment, ref.mode >> \in
         { <<"NO", "code">>, <<"STARTING", "slash">>, <<"CXX", "line">>, <<"C", "block">>,
           <<"FINISHING", "star">>, <<"CHAR", "char">>, <<"STRING", "string">> }
    /\ ~ref.odd => linestate = IF ref.phase = "start" THEN "START"
                               ELSE IF ref.phase = "hash" THEN "HASH" ELSE "DIRTY"

(* A line is taken for a directive exactly when it holds the keyword of     *)
(* one; it is called dodgy when a comment or a literal reaches into it, or  *)
(* begins right behind the directive and reaches beyond it; and a condition *)
(* is taken as known only when it is all there is on the line, but for      *)
(* literals, which skipcomment passes over like comments.  (A comment that  *)
(* begins behind something else on the line goes unnoticed.)                *)
DirectivesFound ==
  (pc = "fgets" /\ ref.entered # "odd" /\ ~ref.odd) =>
    /\ (IF retval.type = "TRUE" THEN "IF" ELSE retval.type) = ref.kw
    /\ retval.type # "PLAIN" =>
         \/ retval.dodgy
         \/ ref.entered = "code" /\ (ref.mode = "code" \/ ref.behind = "junk")
    /\ (retval.type = "TRUE" /\ ~retval.dodgy) => ref.behind = "A"
=============================================================================
