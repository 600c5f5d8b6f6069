--------------------------- MODULE AlgorithmProofs --------------------------
(***************************************************************************)
(* Proofs about the programs in C: the reader of lines of unifdef, for     *)
(* every text; raw2flash and flash2raw for images, partitions, pages and   *)
(* flashes of every size, and for every pattern of short reads; posixtime  *)
(* of at for all digits and in every year.                                 *)
(***************************************************************************)
EXTENDS UnifdefLine, RawFlash, PosixTime, SequenceTheorems, TLAPS

-----------------------------------------------------------------------------
(* The reader of lines: its inductive invariant, in parts.  The parser may  *)
(* have looked one character further than the reader, and skips what can    *)
(* no longer be a directive without looking at it: so the invariant speaks  *)
(* of what the reader will have seen, and of what is in front of it.        *)

LineStates == { "START", "HASH", "DIRTY" }

(* What is left of a line.                                                  *)
IsRest(s) ==
  /\ s \in Seq(Tokens)
  /\ \A i \in 1 .. Len(s) : s[i] \in Ends <=> i = Len(s)
  /\ \A i \in 1 .. Len(s) - 1 : s[i] = "bs" => s[i + 1] # "nl"

LineTypeInv ==
  /\ incomment \in Comments
  /\ linestate \in LineStates
  /\ IsRest(cp)
  /\ pc \in Calls \cup { "fgets", "error", "abort" }
  /\ wascomment \in Comments
  /\ retval \in [ type : Types, dodgy : BOOLEAN ]
  /\ ref \in ReaderType

(* A slash, or a star in a comment, that begins, or ends, no comment: the   *)
(* parser has looked at the next character, the reader has not.             *)
Slash == incomment = "NO" /\ ref.mode = "slash"
Star  == incomment = "C" /\ ref.mode = "star"

(* What the reader will have seen when it has.                              *)
After(r, in) ==
  IF in = "NO" /\ r.mode = "slash" THEN [Visible(r, "/") EXCEPT !.mode = "code"]
  ELSE IF in = "C" /\ r.mode = "star" THEN [r EXCEPT !.mode = "block"] ELSE r

Seen == After(ref, incomment)

SameComment ==
  { <<"NO", "code">>, <<"STARTING", "slash">>, <<"CXX", "line">>, <<"C", "block">>,
    <<"FINISHING", "star">>, <<"CHAR", "char">>, <<"STRING", "string">> }

ModeInv ==
  /\ ref.valid
  /\ << incomment, Seen.mode >> \in SameComment
  /\ Slash => Char(1) \notin { "end", "cont", "*", "/" }
  /\ Star => Char(1) \notin { "end", "cont", "/" }

(* Where in a line the parser can be in which state.                        *)
PlaceInv ==
  /\ pc = "fgets" => cp = <<>>
  /\ incomment = "STARTING" /\ pc # "begin" => cp = <<>>
  /\ Slash => linestate = "DIRTY" /\ pc \in { "begin", "hash", "tail" }
  /\ linestate = "START" /\ pc \in { "hash", "argument", "ending", "tail" } => cp = <<>>
  /\ linestate = "START" /\ pc \in { "argument", "ending" } => incomment = "NO"
  /\ linestate = "HASH" /\ pc = "tail" => cp = <<>>

(* The reader is in the same phase; or what the parser has called dirty is  *)
(* in front of it; or the parser is behind a keyword.                       *)
SamePhase ==
  linestate = IF Seen.phase = "start" THEN "START" ELSE IF Seen.phase = "hash" THEN "HASH" ELSE "DIRTY"
DirtAhead ==
  /\ linestate = "DIRTY" /\ ~Slash /\ incomment = "NO" /\ Stopped /\ cp # <<>>
  /\ \/ ref.phase = "start" /\ Char(1) # "#"
     \/ ref.phase = "hash" /\ Char(1) \notin Keywords
BehindKeyword == linestate = "HASH" /\ ref.phase \in Keywords

PhaseInv ==
  /\ ~ref.odd =>
       /\ pc \in { "fgets", "begin" } => SamePhase
       /\ pc \in { "hash", "tail" } => SamePhase \/ DirtAhead
       /\ pc = "argument" => (linestate # "HASH" /\ SamePhase) \/ BehindKeyword
       /\ pc = "ending" => (linestate # "HASH" /\ SamePhase) \/ BehindKeyword \/ DirtAhead
  /\ cp = <<>> /\ IsDirective /\ pc \in { "begin", "hash" } => ref.odd

(* The type of the line so far.                                             *)
IsType(kw) == kw = IF retval.type = "TRUE" THEN "IF" ELSE retval.type

(* Something else is behind the directive, or will be.                      *)
Junk ==
  \/ Seen.behind = "junk"
  \/ cp # <<>> /\ Stopped /\ Behind(Seen, Char(1)) = "junk"

OnDirective == (Seen.phase \in Keywords /\ ref.kw = TypeOfWord(Seen.phase)) \/ cp = <<>>

AtBegin == retval.type = "PLAIN" /\ ref.kw = "PLAIN"

AtArgument ==
  OnDirective /\ ref.kw = "IF" /\ ref.behind = "nothing" /\ (ref.phase = "ifdef" \/ cp = <<>>)

AtEnding ==
  /\ IsType(ref.kw)
  /\ ref.kw # "PLAIN" => OnDirective
  /\ ref.kw = "IF" => ref.phase = "ifdef" \/ cp = <<>>
  /\ retval.type = "TRUE" => ref.behind = "A"
  /\ retval.type = "IF" /\ ref.behind = "nothing" => cp = <<>> \/ (Stopped /\ Char(1) \notin Words)

AtTail ==
  /\ IsType(ref.kw)
  /\ ref.kw # "PLAIN" => OnDirective
  /\ retval.type = "TRUE" => cp = <<>> /\ (retval.dodgy \/ ref.behind = "A")
  /\ retval.type # "PLAIN" /\ ~retval.dodgy => ref.entered = "code" /\ (Junk \/ (cp = <<>> /\ incomment = "NO"))

DirectiveInv ==
  ref.entered # "odd" =>
    /\ ref.odd => cp = <<>>
    /\ wascomment = "NO" <=> ref.entered = "code"
    /\ ~ref.odd =>
         /\ pc \in { "begin", "hash" } => AtBegin
         /\ pc = "argument" => AtArgument
         /\ pc = "ending" => AtEnding
         /\ pc = "tail" => AtTail
         /\ pc = "fgets" => DirectivesFound

LineIInv ==
  /\ LineTypeInv
  /\ pc \notin { "error", "abort" } => ModeInv /\ PlaceInv /\ PhaseInv /\ DirectiveInv

-----------------------------------------------------------------------------
(* The line.                                                                *)

LEMMA RestFacts ==
  ASSUME IsRest(cp)
  PROVE  /\ Char(1) \in Tokens \cup { "end" }
         /\ Char(2) \in Tokens \cup { "end" }
         /\ Char(1) = "end" <=> cp = <<>>
         /\ Char(1) \in Ends => Char(2) = "end" /\ Len(cp) = 1
         /\ cp # <<>> /\ Char(1) \notin Ends => Char(2) \in Tokens /\ Len(cp) >= 2
         /\ Char(1) = "bs" => Char(2) # "nl"
         /\ cp # <<>> => Len(cp) >= 1 /\ Char(1) = cp[1]
         /\ Len(cp) >= 2 => Char(2) = cp[2] /\ (Char(2) \in Ends <=> Len(cp) = 2)
<1>1. cp \in Seq(Tokens) /\ Len(cp) \in Nat BY DEF IsRest
<1>2. cp # <<>> => Len(cp) >= 1 BY <1>1
<1>3. \A i \in 1 .. Len(cp) : cp[i] \in Tokens BY <1>1
<1>4. "end" \notin Tokens BY DEF Tokens, Words, Keywords, Ends
<1>5. Char(1) = "end" <=> cp = <<>> BY <1>1, <1>2, <1>3, <1>4 DEF Char
<1>6. Char(1) \in Tokens \cup { "end" } /\ Char(2) \in Tokens \cup { "end" } BY <1>1, <1>3 DEF Char
<1>7. ASSUME Char(1) \in Ends PROVE Char(2) = "end" /\ Len(cp) = 1
  <2>1. cp # <<>> BY <1>5, <1>7 DEF Ends
  <2>2. 1 \in 1 .. Len(cp) /\ cp[1] \in Ends BY <2>1, <1>1, <1>2, <1>7 DEF Char
  <2>3. Len(cp) = 1 BY <2>2 DEF IsRest
  <2> QED BY <2>3 DEF Char
<1>8. ASSUME cp # <<>>, Char(1) \notin Ends PROVE Char(2) \in Tokens /\ Len(cp) >= 2
  <2>1. 1 \in 1 .. Len(cp) /\ cp[1] \notin Ends BY <1>1, <1>2, <1>8 DEF Char
  <2>2. Len(cp) # 1
    <3>1. cp[1] \in Ends <=> 1 = Len(cp) BY <2>1 DEF IsRest
    <3> QED BY <3>1, <2>1
  <2>3. Len(cp) >= 2
    <3> DEFINE n == Len(cp)
    <3>1. n \in Nat /\ n >= 1 /\ n # 1 BY <1>1, <1>2, <1>8, <2>2
    <3> HIDE DEF n
    <3>2. n >= 2 BY <3>1
    <3> QED BY <3>2 DEF n
  <2>4. 2 \in 1 .. Len(cp) BY <2>3, <1>1
  <2> QED BY <2>3, <2>4, <1>3 DEF Char
<1>9. ASSUME Char(1) = "bs" PROVE Char(2) # "nl"
  <2>1. cp # <<>> /\ Char(1) \notin Ends BY <1>9, <1>5 DEF Ends
  <2>2. Len(cp) >= 2 /\ 1 \in 1 .. Len(cp) - 1 BY <2>1, <1>8, <1>1
  <2>3. cp[1] = "bs" BY <2>2, <1>9, <1>1 DEF Char
  <2>4. cp[1 + 1] # "nl" BY <2>2, <2>3 DEF IsRest
  <2> QED BY <2>4, <2>2 DEF Char
<1>10. ASSUME Len(cp) >= 2 PROVE Char(2) = cp[2] /\ (Char(2) \in Ends <=> Len(cp) = 2)
  <2>1. 2 \in 1 .. Len(cp) BY <1>10, <1>1
  <2>2. cp[2] \in Ends <=> 2 = Len(cp) BY <2>1 DEF IsRest
  <2>3. Char(2) = cp[2] BY <1>10 DEF Char
  <2> QED BY <2>2, <2>3
<1>11. cp # <<>> => Len(cp) >= 1 /\ Char(1) = cp[1] BY <1>2 DEF Char
<1> QED BY <1>5, <1>6, <1>7, <1>8, <1>9, <1>10, <1>11

LEMMA TakeFacts ==
  ASSUME IsRest(cp), NEW n \in { 0, 1, 2 }, n <= Len(cp), Take(n)
  PROVE  /\ IsRest(cp)'
         /\ Len(cp') = Len(cp) - n
         /\ Char(1)' = Char(n + 1) /\ Char(2)' = Char(n + 2)
         /\ n = 0 => cp' = cp
<1>1. cp \in Seq(Tokens) /\ Len(cp) \in Nat /\ cp' = SubSeq(cp, n + 1, Len(cp)) BY DEF IsRest, Take
<1>2. cp' \in Seq(Tokens) /\ Len(cp') = Len(cp) - n BY <1>1
<1>3. \A i \in 1 .. Len(cp') : cp'[i] = cp[i + n] BY <1>1, <1>2
<1>4. \A i \in 1 .. Len(cp') : i + n \in 1 .. Len(cp) BY <1>1, <1>2
<1>5. \A i \in 1 .. Len(cp') : cp'[i] \in Ends <=> i = Len(cp')
  <2> TAKE i \in 1 .. Len(cp')
  <2>1. cp[i + n] \in Ends <=> i + n = Len(cp) BY <1>4 DEF IsRest
  <2> QED BY <2>1, <1>1, <1>2, <1>3
<1>6. \A i \in 1 .. Len(cp') - 1 : cp'[i] = "bs" => cp'[i + 1] # "nl"
  <2> TAKE i \in 1 .. Len(cp') - 1
  <2>1. i \in 1 .. Len(cp') /\ i + 1 \in 1 .. Len(cp') /\ i + n \in 1 .. Len(cp) - 1 BY <1>1, <1>2
  <2>2. cp'[i] = cp[i + n] /\ cp'[i + 1] = cp[(i + n) + 1] BY <2>1, <1>3, <1>1
  <2>3. cp[i + n] = "bs" => cp[(i + n) + 1] # "nl" BY <2>1 DEF IsRest
  <2> QED BY <2>2, <2>3
<1>7. Char(1)' = Char(n + 1) /\ Char(2)' = Char(n + 2) BY <1>1, <1>2, <1>3 DEF Char
<1>8. n = 0 => cp' = cp BY <1>1
<1> QED BY <1>2, <1>5, <1>6, <1>7, <1>8 DEF IsRest

-----------------------------------------------------------------------------
(* The reader, one character at a time.                                     *)

LEMMA VisibleFields ==
  ASSUME NEW r \in ReaderType, NEW t \in Tokens
  PROVE  /\ Visible(r, t) \in ReaderType
         /\ Visible(r, t).mode = r.mode /\ Visible(r, t).odd = r.odd
         /\ Visible(r, t).entered = r.entered /\ Visible(r, t).valid = r.valid
         /\ Visible(r, t).phase = IF r.phase = "start" THEN (IF t = "#" THEN "hash" ELSE "dirty")
                                  ELSE IF r.phase = "hash" THEN (IF t \in Keywords THEN t ELSE "dirty")
                                  ELSE r.phase
         /\ Visible(r, t).kw = IF r.phase = "hash" THEN TypeOfWord(t) ELSE r.kw
         /\ Visible(r, t).behind = IF r.phase = "hash" THEN "nothing"
                                   ELSE IF r.phase \in Keywords THEN Behind(r, t) ELSE r.behind
<1>1. TypeOfWord(t) \in Types BY DEF TypeOfWord, Types
<1>2. Behind(r, t) \in { "nothing", "junk" } \cup Words BY DEF Behind, ReaderType
<1>3. CASE r.phase = "start" BY <1>3 DEF Visible, ReaderType, Phases, Keywords
<1>4. CASE r.phase = "hash" BY <1>4, <1>1 DEF Visible, ReaderType, Phases, Keywords
<1>5. CASE r.phase \in Keywords BY <1>5, <1>2 DEF Visible, ReaderType, Phases, Keywords
<1>6. CASE r.phase \notin Keywords \cup { "start", "hash" } BY <1>6 DEF Visible
<1> QED BY <1>3, <1>4, <1>5, <1>6

LEMMA WithMode ==
  ASSUME NEW r \in ReaderType, NEW m \in Modes
  PROVE  [r EXCEPT !.mode = m] \in ReaderType
BY DEF ReaderType

LEMMA InCodeType ==
  ASSUME NEW r \in ReaderType, NEW t \in Tokens
  PROVE  InCode(r, t) \in ReaderType
<1>1. \A m \in { "code", "slash", "char", "string" } : m \in Modes BY DEF Modes
<1>2. CASE t = "nl" BY <1>2, <1>1 DEF InCode, ReaderType, Phases
<1>3. CASE t # "nl" /\ t \in { "/", "sp" } BY <1>3, <1>1, WithMode DEF InCode
<1>4. CASE t \notin { "nl", "/", "sp" } BY <1>4, <1>1, WithMode, VisibleFields DEF InCode
<1> QED BY <1>2, <1>3, <1>4

LEMMA InLiteralType ==
  ASSUME NEW r \in ReaderType, NEW t \in Tokens
  PROVE  InLiteral(r, t) \in ReaderType
<1>1. \A m \in { "code", "char", "string", "charesc", "stringesc" } : m \in Modes BY DEF Modes
<1>2. [r EXCEPT !.valid = FALSE] \in ReaderType BY DEF ReaderType
<1> QED BY <1>1, <1>2, WithMode DEF InLiteral

LEMMA InCommentType ==
  ASSUME NEW r \in ReaderType, NEW t \in Tokens
  PROVE  InComment(r, t) \in ReaderType
<1>1. \A m \in { "code", "star", "block" } : m \in Modes BY DEF Modes
<1> QED BY <1>1, WithMode, InCodeType DEF InComment

LEMMA ReadType ==
  ASSUME NEW r \in ReaderType, NEW t \in Tokens
  PROVE  Read(r, t) \in ReaderType
<1>1. "line" \in Modes /\ "block" \in Modes /\ "/" \in Tokens BY DEF Modes, Tokens
<1>2. [r EXCEPT !.odd = r.odd \/ r.phase = "hash"] \in ReaderType BY DEF ReaderType
<1>3. Visible(r, "/") \in ReaderType BY <1>1, VisibleFields
<1> QED BY <1>1, <1>2, <1>3, WithMode, InCodeType, InCommentType, InLiteralType DEF Read

(* What is the same of two readers that differ in where they are.           *)
Same(r, s) ==
  /\ r.phase = s.phase /\ r.kw = s.kw /\ r.behind = s.behind
  /\ r.odd = s.odd /\ r.entered = s.entered /\ r.valid = s.valid

LEMMA SameReader ==
  ASSUME NEW r \in ReaderType, NEW s \in ReaderType, Same(r, s), r.mode = s.mode
  PROVE  r = s
BY DEF ReaderType, Same

LEMMA WithModeFields ==
  ASSUME NEW r \in ReaderType, NEW m \in Modes
  PROVE  Same([r EXCEPT !.mode = m], r) /\ [r EXCEPT !.mode = m].mode = m
BY DEF ReaderType, Same

LEMMA SameVisible ==
  ASSUME NEW r \in ReaderType, NEW s \in ReaderType, NEW t \in Tokens, Same(r, s)
  PROVE  Same(Visible(r, t), Visible(s, t))
BY VisibleFields DEF Same, Behind

(* Code.                                                                    *)
LEMMA InCodeFields ==
  ASSUME NEW r \in ReaderType, NEW t \in Tokens
  PROVE  /\ InCode(r, t).mode = IF t = "/" THEN "slash" ELSE IF t = "'" THEN "char"
                                ELSE IF t = "quote" THEN "string" ELSE "code"
         /\ t = "nl" => /\ InCode(r, t).phase = "start" /\ InCode(r, t).odd = FALSE
                        /\ InCode(r, t).kw = r.kw /\ InCode(r, t).behind = r.behind
                        /\ InCode(r, t).entered = r.entered /\ InCode(r, t).valid = r.valid
         /\ t \in { "/", "sp" } => Same(InCode(r, t), r)
         /\ t \notin { "nl", "/", "sp" } => Same(InCode(r, t), Visible(r, t))
<1>1. \A m \in { "code", "slash", "char", "string" } : m \in Modes BY DEF Modes
<1>2. CASE t = "nl" BY <1>2 DEF InCode, ReaderType
<1>3. CASE t \in { "/", "sp" }
  <2> DEFINE m == IF t = "/" THEN "slash" ELSE "code"
  <2>1. InCode(r, t) = [r EXCEPT !.mode = m] /\ m \in Modes BY <1>3, <1>1 DEF InCode
  <2> QED BY <2>1, <1>3, WithModeFields
<1>4. CASE t \notin { "nl", "/", "sp" }
  <2> DEFINE m == IF t = "'" THEN "char" ELSE IF t = "quote" THEN "string" ELSE "code"
  <2>1. InCode(r, t) = [Visible(r, t) EXCEPT !.mode = m] /\ m \in Modes BY <1>4, <1>1 DEF InCode
  <2>2. Visible(r, t) \in ReaderType BY VisibleFields
  <2> HIDE DEF m
  <2>3. Same(InCode(r, t), Visible(r, t)) /\ InCode(r, t).mode = m BY <2>1, <2>2, WithModeFields
  <2> QED BY <2>3, <1>4 DEF m
<1> QED BY <1>2, <1>3, <1>4

LEMMA InCodeAnyMode ==
  ASSUME NEW r \in ReaderType, NEW m \in Modes, NEW t \in Tokens
  PROVE  InCode([r EXCEPT !.mode = m], t) = InCode(r, t)
<1> DEFINE s == [r EXCEPT !.mode = m]
<1>1. s \in ReaderType /\ Same(s, r) BY WithMode, WithModeFields
<1> HIDE DEF s
<1>2. InCode(s, t) \in ReaderType /\ InCode(r, t) \in ReaderType BY <1>1, InCodeType
<1>3. Same(Visible(s, t), Visible(r, t))
  <2>1. s \in ReaderType /\ Same(s, r) BY <1>1
  <2> QED BY <2>1, SameVisible
<1>4. InCode(s, t).mode = InCode(r, t).mode
  <2> DEFINE m1 == IF t = "/" THEN "slash" ELSE IF t = "'" THEN "char" ELSE IF t = "quote" THEN "string" ELSE "code"
  <2>1. InCode(s, t).mode = m1 BY <1>1, InCodeFields
  <2>2. InCode(r, t).mode = m1 BY InCodeFields
  <2> QED BY <2>1, <2>2
<1>5. Same(InCode(s, t), InCode(r, t))
  <2>1. CASE t = "nl"
    <3>1. /\ InCode(s, t).phase = "start" /\ InCode(s, t).odd = FALSE
          /\ InCode(s, t).kw = s.kw /\ InCode(s, t).behind = s.behind
          /\ InCode(s, t).entered = s.entered /\ InCode(s, t).valid = s.valid
      BY <2>1, <1>1, InCodeFields
    <3>2. /\ InCode(r, t).phase = "start" /\ InCode(r, t).odd = FALSE
          /\ InCode(r, t).kw = r.kw /\ InCode(r, t).behind = r.behind
          /\ InCode(r, t).entered = r.entered /\ InCode(r, t).valid = r.valid
      BY <2>1, InCodeFields
    <3> QED BY <3>1, <3>2, <1>1 DEF Same
  <2>2. CASE t \in { "/", "sp" }
    <3>1. Same(InCode(s, t), s) BY <2>2, <1>1, InCodeFields
    <3>2. Same(InCode(r, t), r) BY <2>2, InCodeFields
    <3> QED BY <3>1, <3>2, <1>1 DEF Same
  <2>3. CASE t \notin { "nl", "/", "sp" }
    <3>1. Same(InCode(s, t), Visible(s, t)) BY <2>3, <1>1, InCodeFields
    <3>2. Same(InCode(r, t), Visible(r, t)) BY <2>3, InCodeFields
    <3> QED BY <3>1, <3>2, <1>3 DEF Same
  <2> QED BY <2>1, <2>2, <2>3
<1>6. InCode(s, t) = InCode(r, t) BY <1>2, <1>4, <1>5, SameReader
<1> QED BY <1>6 DEF s

LEMMA AfterFields ==
  ASSUME NEW r \in ReaderType, NEW in \in Comments
  PROVE  /\ After(r, in) \in ReaderType
         /\ in = "NO" /\ r.mode = "slash" => Same(After(r, in), Visible(r, "/")) /\ After(r, in).mode = "code"
         /\ ~(in = "NO" /\ r.mode = "slash") => Same(After(r, in), r)
         /\ in = "C" /\ r.mode = "star" => After(r, in).mode = "block"
         /\ ~(in = "NO" /\ r.mode = "slash") /\ ~(in = "C" /\ r.mode = "star") => After(r, in) = r
<1>1. "code" \in Modes /\ "block" \in Modes /\ "/" \in Tokens BY DEF Modes, Tokens
<1>2. Visible(r, "/") \in ReaderType BY <1>1, VisibleFields
<1>3. CASE in = "NO" /\ r.mode = "slash" BY <1>1, <1>2, <1>3, WithMode, WithModeFields DEF After
<1>4. CASE in = "C" /\ r.mode = "star" BY <1>1, <1>4, WithMode, WithModeFields DEF After
<1>5. CASE ~(in = "NO" /\ r.mode = "slash") /\ ~(in = "C" /\ r.mode = "star") BY <1>5 DEF After, Same
<1> QED BY <1>3, <1>4, <1>5

(* The reader goes on from where it is as it would have from what it will   *)
(* have seen.                                                               *)
LEMMA SeenReads ==
  ASSUME LineTypeInv, ModeInv, cp # <<>>
  PROVE  Read(ref, Char(1)) = Read(Seen, Char(1))
<1>1. ref \in ReaderType /\ incomment \in Comments BY DEF LineTypeInv
<1>2. Char(1) \in Tokens BY RestFacts DEF LineTypeInv
<1>3. "code" \in Modes /\ "block" \in Modes /\ "star" \in Modes /\ "/" \in Tokens BY DEF Modes, Tokens
<1>4. CASE Slash
  <2>1. Visible(ref, "/") \in ReaderType BY <1>1, <1>3, VisibleFields
  <2>2. Seen = [Visible(ref, "/") EXCEPT !.mode = "code"] BY <1>4 DEF Seen, After, Slash
  <2>3. Seen.mode = "code" BY <2>1, <2>2, <1>3, WithModeFields
  <2>4. Char(1) \notin { "cont", "*", "/" } BY <1>4 DEF ModeInv
  <2>5. Read(ref, Char(1)) = InCode(Visible(ref, "/"), Char(1)) BY <2>4, <1>4 DEF Read, Slash
  <2>6. Read(Seen, Char(1)) = InCode(Seen, Char(1)) BY <2>3, <2>4 DEF Read
  <2>7. InCode(Seen, Char(1)) = InCode(Visible(ref, "/"), Char(1)) BY <2>1, <2>2, <1>2, <1>3, InCodeAnyMode
  <2> QED BY <2>5, <2>6, <2>7
<1>5. CASE Star
  <2> DEFINE m == IF Char(1) = "*" THEN "star" ELSE "block"
  <2>1. Seen = [ref EXCEPT !.mode = "block"] BY <1>5 DEF Seen, After, Star
  <2>2. Seen.mode = "block" /\ Seen \in ReaderType /\ Same(Seen, ref) BY <2>1, <1>1, <1>3, WithMode, WithModeFields
  <2>3. Char(1) \notin { "cont", "/" } BY <1>5 DEF ModeInv
  <2>4. Read(ref, Char(1)) = [ref EXCEPT !.mode = m] BY <2>3, <1>5 DEF Read, InComment, Star
  <2>5. Read(Seen, Char(1)) = [Seen EXCEPT !.mode = m] BY <2>2, <2>3 DEF Read, InComment
  <2>6. m \in Modes BY <1>3
  <2> HIDE DEF m
  <2>7. Same([ref EXCEPT !.mode = m], [Seen EXCEPT !.mode = m]) BY <1>1, <2>2, <2>6, WithModeFields DEF Same
  <2>8. [ref EXCEPT !.mode = m].mode = [Seen EXCEPT !.mode = m].mode BY <1>1, <2>2, <2>6, WithModeFields
  <2>9. [ref EXCEPT !.mode = m] \in ReaderType /\ [Seen EXCEPT !.mode = m] \in ReaderType BY <1>1, <2>2, <2>6, WithMode
  <2> QED BY <2>4, <2>5, <2>7, <2>8, <2>9, SameReader
<1>6. CASE ~Slash /\ ~Star BY <1>6 DEF Seen, After, Slash, Star
<1> QED BY <1>4, <1>5, <1>6

LEMMA SeenType ==
  ASSUME LineTypeInv
  PROVE  Seen \in ReaderType
BY AfterFields DEF LineTypeInv, Seen

LEMMA TakeNone ==
  ASSUME LineTypeInv, Take(0)
  PROVE  ref' = ref /\ cp' = cp
BY TakeFacts DEF LineTypeInv, Take, ReadOn, IsRest

LEMMA TakeOne ==
  ASSUME LineTypeInv, ModeInv, cp # <<>>, Take(1)
  PROVE  /\ ref' = Read(Seen, Char(1)) /\ ref' \in ReaderType
         /\ IsRest(cp)' /\ Char(1)' = Char(2)
         /\ cp' = <<>> <=> Char(1) \in Ends
<1>1. IsRest(cp) /\ ref \in ReaderType BY DEF LineTypeInv
<1>2. Char(1) \in Tokens /\ Char(1) = cp[1] /\ Len(cp) >= 1 BY <1>1, RestFacts
<1>3. IsRest(cp)' /\ Char(1)' = Char(1 + 1) /\ Len(cp') = Len(cp) - 1 BY <1>1, <1>2, TakeFacts
<1>4. ref' = Read(ref, Char(1)) BY <1>2 DEF Take, ReadOn
<1>5. cp' \in Seq(Tokens) /\ Len(cp) \in Nat BY <1>1, <1>3 DEF IsRest
<1>6. cp' = <<>> <=> Len(cp) = 1 BY <1>3, <1>5
<1>7. Len(cp) = 1 <=> Char(1) \in Ends
  <2>1. Char(1) \in Ends => Len(cp) = 1 BY <1>1, RestFacts
  <2>2. Char(1) \notin Ends => Len(cp) >= 2 BY <1>1, RestFacts
  <2> QED BY <2>1, <2>2
<1> QED BY <1>1, <1>2, <1>3, <1>4, <1>6, <1>7, ReadType, SeenReads

LEMMA TakeTwo ==
  ASSUME LineTypeInv, ModeInv, cp # <<>>, Char(1) \notin Ends, Take(2)
  PROVE  /\ ref' = Read(Read(Seen, Char(1)), Char(2)) /\ ref' \in ReaderType
         /\ Read(Seen, Char(1)) \in ReaderType
         /\ IsRest(cp)'
         /\ cp' = <<>> <=> Char(2) \in Ends
<1>1. IsRest(cp) /\ ref \in ReaderType BY DEF LineTypeInv
<1>2. Char(1) \in Tokens /\ Char(1) = cp[1] BY <1>1, RestFacts
<1>3. Char(2) \in Tokens /\ Len(cp) >= 2 BY <1>1, RestFacts
<1>4. Char(2) = cp[2] /\ (Char(2) \in Ends <=> Len(cp) = 2) BY <1>1, <1>3, RestFacts
<1>5. IsRest(cp)' /\ Len(cp') = Len(cp) - 2 BY <1>1, <1>3, TakeFacts
<1>6. ref' = Read(Read(ref, Char(1)), Char(2)) BY <1>2, <1>4 DEF Take, ReadOn
<1>7. cp' \in Seq(Tokens) /\ Len(cp) \in Nat BY <1>1, <1>5 DEF IsRest
<1>8. cp' = <<>> <=> Len(cp) = 2
  <2> DEFINE n == Len(cp)
             m == Len(cp')
  <2>1. cp' = <<>> <=> m = 0 BY <1>7
  <2>2. m = n - 2 /\ n \in Nat BY <1>5, <1>7
  <2> HIDE DEF n, m
  <2>3. m = 0 <=> n = 2 BY <2>2
  <2> QED BY <2>1, <2>3 DEF n
<1>9. Read(ref, Char(1)) = Read(Seen, Char(1)) BY SeenReads
<1>10. Read(ref, Char(1)) \in ReaderType BY <1>1, <1>2, ReadType
<1>11. Read(Read(ref, Char(1)), Char(2)) \in ReaderType BY <1>3, <1>10, ReadType
<1> QED BY <1>4, <1>5, <1>6, <1>8, <1>9, <1>10, <1>11

LEMMA InStep ==
  ASSUME ref' \in ReaderType, incomment' \in Comments, <<incomment', ref'.mode>> \in SameComment
  PROVE  ~Slash' /\ ~Star' /\ Seen' = ref'
<1>1. ~Slash' /\ ~Star' BY DEF Slash, Star, SameComment
<1> QED BY <1>1 DEF Seen, Slash, Star, After

LEMMA ReadCont ==
  ASSUME NEW r \in ReaderType
  PROVE  /\ Read(r, "cont").mode = r.mode /\ Read(r, "cont").phase = r.phase
         /\ Read(r, "cont").kw = r.kw /\ Read(r, "cont").behind = r.behind
         /\ Read(r, "cont").entered = r.entered /\ Read(r, "cont").valid = r.valid
         /\ Read(r, "cont").odd = (r.odd \/ r.phase = "hash")
<1>1. Read(r, "cont") = [r EXCEPT !.odd = r.odd \/ r.phase = "hash"] BY DEF Read
<1>2. r.odd \in BOOLEAN BY DEF ReaderType
<1> QED BY <1>1, <1>2 DEF ReaderType

-----------------------------------------------------------------------------
(* What a turn of skipcomment's loop does to the reader.                    *)
Quiet   == linestate' = linestate /\ ~Slash' /\ Same(Seen', Seen) /\ (cp' = <<>> => incomment' # "NO")
Spliced ==
  /\ linestate' = linestate /\ ~Slash' /\ cp' = <<>>
  /\ Seen'.phase = Seen.phase /\ Seen'.kw = Seen.kw /\ Seen'.behind = Seen.behind
  /\ Seen'.entered = Seen.entered /\ Seen'.odd = (Seen.odd \/ Seen.phase = "hash")
Newline ==
  /\ linestate' = "START" /\ incomment' = "NO" /\ ~Slash' /\ cp' = <<>>
  /\ Seen'.phase = "start" /\ Seen'.kw = Seen.kw /\ Seen'.behind = Seen.behind
  /\ Seen'.entered = Seen.entered /\ Seen'.odd = FALSE
Quoted  ==
  /\ linestate' = "DIRTY" /\ ~Slash' /\ cp' # <<>>
  /\ \E t \in { "'", "quote" } : Same(Seen', Visible(Seen, t))
Slashed == linestate' = "DIRTY" /\ Slash' /\ cp' = cp /\ ref' = ref /\ Same(Seen', Visible(Seen, "/"))

Turn ==
  /\ LineTypeInv' /\ ModeInv'
  /\ incomment' = "STARTING" => cp' = <<>>
  /\ Quiet \/ Spliced \/ Newline \/ Quoted \/ (incomment = "STARTING" /\ Slashed)

LEMMA TurnOf ==
  ASSUME LineTypeInv, ref' \in ReaderType, IsRest(cp)', ref'.valid, <<incomment', ref'.mode>> \in SameComment,
         incomment' \in Comments, linestate' \in LineStates, UNCHANGED <<pc, wascomment, retval>>
  PROVE  LineTypeInv' /\ ModeInv' /\ ~Slash' /\ ~Star' /\ Seen' = ref'
<1>1. ~Slash' /\ ~Star' /\ Seen' = ref' BY InStep
<1>2. LineTypeInv' BY DEF LineTypeInv
<1>3. ModeInv' BY <1>1 DEF ModeInv
<1> QED BY <1>1, <1>2, <1>3

LEMMA SeenMode ==
  ASSUME LineTypeInv, ModeInv
  PROVE  /\ Seen \in ReaderType /\ Seen.valid
         /\ incomment = "NO" => Seen.mode = "code"
         /\ incomment = "STARTING" => Seen.mode = "slash"
         /\ incomment = "CXX" => Seen.mode = "line"
         /\ incomment = "C" => Seen.mode = "block"
         /\ incomment = "FINISHING" => Seen.mode = "star"
         /\ incomment = "CHAR" => Seen.mode = "char"
         /\ incomment = "STRING" => Seen.mode = "string"
<1>1. ref \in ReaderType /\ incomment \in Comments BY DEF LineTypeInv
<1>2. Seen \in ReaderType BY SeenType
<1>3. "/" \in Tokens BY DEF Tokens
<1>4. Visible(ref, "/").valid = ref.valid BY <1>1, <1>3, VisibleFields
<1>5. Seen.valid = ref.valid BY <1>1, <1>4, AfterFields DEF Seen, Same
<1> QED BY <1>2, <1>5 DEF ModeInv, SameComment

LEMMA Continuation ==
  ASSUME LineTypeInv, ModeInv, cp # <<>>, Char(1) = "cont", Go(1, incomment, linestate)
  PROVE  Turn
<1>1. Take(1) /\ incomment' = incomment /\ linestate' = linestate /\ UNCHANGED <<pc, wascomment, retval>> BY DEF Go
<1>2. ref' = Read(Seen, "cont") /\ ref' \in ReaderType /\ IsRest(cp)' /\ cp' = <<>> BY <1>1, TakeOne DEF Ends
<1>3. Seen \in ReaderType /\ Seen.valid BY SeenMode
<1>4. /\ ref'.mode = Seen.mode /\ ref'.phase = Seen.phase /\ ref'.kw = Seen.kw /\ ref'.behind = Seen.behind
      /\ ref'.entered = Seen.entered /\ ref'.valid = Seen.valid /\ ref'.odd = (Seen.odd \/ Seen.phase = "hash")
  BY <1>2, <1>3, ReadCont
<1>5. <<incomment', ref'.mode>> \in SameComment BY <1>1, <1>4 DEF ModeInv
<1>6. LineTypeInv' /\ ModeInv' /\ ~Slash' /\ Seen' = ref' BY <1>1, <1>2, <1>3, <1>4, <1>5, TurnOf DEF LineTypeInv
<1>7. Spliced BY <1>1, <1>2, <1>4, <1>6 DEF Spliced
<1> QED BY <1>2, <1>6, <1>7 DEF Turn

LEMMA NoCommentTurn ==
  ASSUME LineTypeInv, ModeInv, cp # <<>>, Char(1) # "cont", NoComment
  PROVE  Turn
<1>1. Seen \in ReaderType /\ Seen.valid /\ Seen.mode = "code" BY SeenMode DEF NoComment
<1>2. \A m \in { "slash", "line", "block" } : m \in Modes BY DEF Modes
<1>3. incomment = "NO" /\ linestate \in LineStates BY DEF NoComment, LineTypeInv
<1>4. CASE Char(1) = "/" /\ Char(2) \in { "cont", "*", "/" }
  <2> DEFINE in == IF Char(2) = "cont" THEN "STARTING" ELSE IF Char(2) = "*" THEN "C" ELSE "CXX"
             s  == [Seen EXCEPT !.mode = "slash"]
  <2>1. Go(2, in, linestate) BY <1>4 DEF NoComment
  <2>2. Take(2) /\ incomment' = in /\ linestate' = linestate /\ UNCHANGED <<pc, wascomment, retval>> BY <2>1 DEF Go
  <2>3. Char(1) \notin Ends BY <1>4 DEF Ends
  <2>4. /\ ref' = Read(Read(Seen, Char(1)), Char(2)) /\ ref' \in ReaderType /\ IsRest(cp)'
        /\ cp' = <<>> <=> Char(2) \in Ends
    BY <2>2, <2>3, TakeTwo
  <2>5. Read(Seen, Char(1)) = s BY <1>1, <1>4 DEF Read, InCode
  <2>6. s \in ReaderType /\ Same(s, Seen) /\ s.mode = "slash" BY <1>1, <1>2, WithMode, WithModeFields
  <2> HIDE DEF s
  <2>7. CASE Char(2) = "cont"
    <3>1. ref' = Read(s, "cont") BY <2>4, <2>5, <2>7
    <3>2. /\ ref'.mode = "slash" /\ ref'.phase = Seen.phase /\ ref'.kw = Seen.kw /\ ref'.behind = Seen.behind
          /\ ref'.entered = Seen.entered /\ ref'.valid = Seen.valid /\ ref'.odd = (Seen.odd \/ Seen.phase = "hash")
      BY <3>1, <2>6, ReadCont DEF Same
    <3>3. <<incomment', ref'.mode>> \in SameComment BY <2>2, <2>7, <3>2 DEF SameComment
    <3>4. incomment' \in Comments BY <2>2 DEF Comments
    <3>5. LineTypeInv' /\ ModeInv' /\ ~Slash' /\ Seen' = ref' BY <1>1, <1>3, <2>2, <2>4, <3>2, <3>3, <3>4, TurnOf
    <3>6. cp' = <<>> BY <2>4, <2>7 DEF Ends
    <3>7. Spliced BY <2>2, <3>2, <3>5, <3>6 DEF Spliced
    <3> QED BY <3>5, <3>6, <3>7 DEF Turn
  <2>8. CASE Char(2) \in { "*", "/" }
    <3> DEFINE m == IF Char(2) = "*" THEN "block" ELSE "line"
    <3>1. ref' = [s EXCEPT !.mode = m] BY <2>4, <2>5, <2>6, <2>8 DEF Read
    <3>2. m \in Modes BY <1>2
    <3>3. <<in, m>> \in SameComment /\ in \in Comments /\ in \notin { "NO", "STARTING" } BY <2>8 DEF SameComment, Comments
    <3> HIDE DEF m
    <3>4. ref'.mode = m /\ Same(ref', s) BY <3>1, <3>2, <2>6, WithModeFields
    <3>5. Same(ref', Seen) BY <3>4, <2>6 DEF Same
    <3>6. ref'.valid BY <3>5, <1>1 DEF Same
    <3>7. LineTypeInv' /\ ModeInv' /\ ~Slash' /\ Seen' = ref' BY <1>3, <2>2, <2>4, <3>3, <3>4, <3>6, TurnOf
    <3>8. Quiet BY <2>2, <3>3, <3>5, <3>7 DEF Quiet
    <3> QED BY <2>2, <3>3, <3>7, <3>8 DEF Turn
  <2> QED BY <1>4, <2>7, <2>8
<1>5. CASE Char(1) \in { "'", "quote", "nl", "sp" }
  <2> DEFINE in == IF Char(1) = "'" THEN "CHAR" ELSE IF Char(1) = "quote" THEN "STRING" ELSE "NO"
             ls == IF Char(1) \in { "'", "quote" } THEN "DIRTY" ELSE IF Char(1) = "nl" THEN "START" ELSE linestate
  <2>1. Go(1, in, ls) BY <1>5 DEF NoComment
  <2>2. Take(1) /\ incomment' = in /\ linestate' = ls /\ UNCHANGED <<pc, wascomment, retval>> BY <2>1 DEF Go
  <2>3. /\ ref' = Read(Seen, Char(1)) /\ ref' \in ReaderType /\ IsRest(cp)'
        /\ cp' = <<>> <=> Char(1) \in Ends
    BY <2>2, TakeOne
  <2>4. ref' = InCode(Seen, Char(1)) BY <2>3, <1>1, <1>5 DEF Read
  <2>5. Char(1) \in Tokens BY <1>5 DEF Tokens, Ends
  <2>6. ref'.mode = IF Char(1) = "'" THEN "char" ELSE IF Char(1) = "quote" THEN "string" ELSE "code"
    BY <2>4, <2>5, <1>1, <1>5, InCodeFields
  <2>7. <<in, ref'.mode>> \in SameComment /\ in \in Comments /\ ls \in LineStates /\ in # "STARTING"
    BY <2>6, <1>3, <1>5 DEF SameComment, Comments, LineStates
  <2>8. CASE Char(1) = "nl"
    <3>1. /\ ref'.phase = "start" /\ ref'.kw = Seen.kw /\ ref'.behind = Seen.behind
          /\ ref'.entered = Seen.entered /\ ref'.odd = FALSE /\ ref'.valid = Seen.valid
      BY <2>4, <2>5, <2>8, <1>1, InCodeFields
    <3>2. LineTypeInv' /\ ModeInv' /\ ~Slash' /\ Seen' = ref' BY <1>1, <2>2, <2>3, <2>7, <3>1, TurnOf
    <3>3. Newline BY <2>2, <2>3, <2>8, <3>1, <3>2 DEF Newline, Ends
    <3> QED BY <2>2, <2>7, <3>2, <3>3 DEF Turn
  <2>9. CASE Char(1) = "sp"
    <3>1. Same(ref', Seen) BY <2>4, <2>5, <2>9, <1>1, InCodeFields
    <3>2. ref'.valid BY <3>1, <1>1 DEF Same
    <3>3. LineTypeInv' /\ ModeInv' /\ ~Slash' /\ Seen' = ref' BY <2>2, <2>3, <2>7, <3>2, TurnOf
    <3>4. Quiet BY <2>2, <2>3, <2>9, <3>1, <3>3 DEF Quiet, Ends
    <3> QED BY <2>2, <2>7, <3>3, <3>4 DEF Turn
  <2>10. CASE Char(1) \in { "'", "quote" }
    <3>1. Same(ref', Visible(Seen, Char(1))) BY <2>4, <2>5, <2>10, <1>1, InCodeFields
    <3>2. Visible(Seen, Char(1)).valid BY <1>1, <2>5, VisibleFields
    <3>3. ref'.valid BY <3>1, <3>2 DEF Same
    <3>4. LineTypeInv' /\ ModeInv' /\ ~Slash' /\ Seen' = ref' BY <2>2, <2>3, <2>7, <3>3, TurnOf
    <3>5. Quoted BY <2>2, <2>3, <2>10, <3>1, <3>4 DEF Quoted, Ends
    <3> QED BY <2>2, <2>7, <3>4, <3>5 DEF Turn
  <2> QED BY <1>5, <2>8, <2>9, <2>10
<1> QED BY <1>4, <1>5 DEF NoComment

LEMMA CxxCommentTurn ==
  ASSUME LineTypeInv, ModeInv, cp # <<>>, Char(1) # "cont", CxxComment
  PROVE  Turn
<1>1. Seen \in ReaderType /\ Seen.valid /\ Seen.mode = "line" BY SeenMode DEF CxxComment
<1>2. linestate \in LineStates /\ IsRest(cp) BY DEF LineTypeInv
<1>3. Char(1) \in Tokens BY <1>2, RestFacts
<1>4. CASE Char(1) = "nl"
  <2>1. Take(1) /\ incomment' = "NO" /\ linestate' = "START" /\ UNCHANGED <<pc, wascomment, retval>> BY <1>4 DEF CxxComment, Go
  <2>2. ref' = Read(Seen, "nl") /\ ref' \in ReaderType /\ IsRest(cp)' /\ cp' = <<>> BY <2>1, <1>4, TakeOne DEF Ends
  <2>0. "nl" \in Tokens BY DEF Tokens, Ends
  <2>3. ref' = InCode(Seen, "nl") BY <2>2, <1>1 DEF Read, InComment
  <2>4. /\ ref'.mode = "code" /\ ref'.phase = "start" /\ ref'.kw = Seen.kw /\ ref'.behind = Seen.behind
        /\ ref'.entered = Seen.entered /\ ref'.odd = FALSE /\ ref'.valid = Seen.valid
    BY <2>3, <1>1, <2>0, InCodeFields
  <2>5. <<"NO", "code">> \in SameComment /\ "NO" \in Comments /\ "START" \in LineStates BY DEF SameComment, Comments, LineStates
  <2>6. LineTypeInv' /\ ModeInv' /\ ~Slash' /\ Seen' = ref' BY <1>1, <2>1, <2>2, <2>4, <2>5, TurnOf
  <2>7. Newline BY <2>1, <2>2, <2>4, <2>6 DEF Newline
  <2> QED BY <2>1, <2>6, <2>7 DEF Turn
<1>5. CASE Char(1) # "nl"
  <2>1. Take(1) /\ incomment' = "CXX" /\ linestate' = linestate /\ UNCHANGED <<pc, wascomment, retval>> BY <1>5 DEF CxxComment, Go
  <2>2. ref' = Read(Seen, Char(1)) /\ ref' \in ReaderType /\ IsRest(cp)' BY <2>1, TakeOne
  <2>3. ref' = Seen BY <2>2, <1>1, <1>5 DEF Read, InComment
  <2>4. <<"CXX", "line">> \in SameComment /\ "CXX" \in Comments BY DEF SameComment, Comments
  <2>5. LineTypeInv' /\ ModeInv' /\ ~Slash' /\ Seen' = ref' BY <1>1, <1>2, <2>1, <2>2, <2>3, <2>4, TurnOf
  <2>6. Quiet BY <2>1, <2>3, <2>5 DEF Quiet, Same
  <2> QED BY <2>1, <2>5, <2>6 DEF Turn
<1> QED BY <1>4, <1>5

LEMMA LiteralTurn ==
  ASSUME LineTypeInv, ModeInv, cp # <<>>, Char(1) # "cont", Literal
  PROVE  Turn
<1> DEFINE m == IF incomment = "CHAR" THEN "char" ELSE "string"
           e == IF incomment = "CHAR" THEN "charesc" ELSE "stringesc"
<1>1. Seen \in ReaderType /\ Seen.valid /\ Seen.mode = m /\ incomment \in { "CHAR", "STRING" } BY SeenMode DEF Literal
<1>2. linestate \in LineStates /\ IsRest(cp) BY DEF LineTypeInv
<1>3. m \in Modes /\ e \in Modes /\ "code" \in Modes BY DEF Modes
<1>4. <<incomment, m>> \in SameComment /\ <<"NO", "code">> \in SameComment BY <1>1 DEF SameComment
<1>5. incomment \in Comments /\ "NO" \in Comments BY <1>1 DEF Comments
<1>6. \A c : Read(Seen, c) = IF c = "cont" THEN Read(Seen, c) ELSE InLiteral(Seen, c) BY <1>1 DEF Read
<1>7. CASE Char(1) = Quote
  <2>1. Take(1) /\ incomment' = "NO" /\ linestate' = linestate /\ UNCHANGED <<pc, wascomment, retval>>
    BY <1>1, <1>7 DEF Literal, Go, Quote
  <2>2. ref' = Read(Seen, Char(1)) /\ ref' \in ReaderType /\ IsRest(cp)' /\ cp' # <<>> BY <2>1, <1>7, TakeOne DEF Ends, Quote
  <2>3. ref' = [Seen EXCEPT !.mode = "code"] BY <2>2, <1>1, <1>6, <1>7 DEF InLiteral, Quote
  <2>4. Same(ref', Seen) /\ ref'.mode = "code" BY <2>3, <1>1, <1>3, WithModeFields
  <2>5. ref'.valid BY <2>4, <1>1 DEF Same
  <2>6. LineTypeInv' /\ ModeInv' /\ ~Slash' /\ Seen' = ref' BY <1>2, <1>4, <1>5, <2>1, <2>2, <2>4, <2>5, TurnOf
  <2>7. Quiet BY <2>1, <2>2, <2>4, <2>6 DEF Quiet
  <2> QED BY <2>1, <2>6, <2>7 DEF Turn
<1>8. CASE Char(1) = "bs" /\ Char(2) # "cont"
  <2> DEFINE s == [Seen EXCEPT !.mode = e]
  <2>1. Take(2) /\ incomment' = incomment /\ linestate' = linestate /\ UNCHANGED <<pc, wascomment, retval>>
    BY <1>1, <1>8 DEF Literal, Go, Quote
  <2>2. Char(1) \notin Ends BY <1>8 DEF Ends
  <2>3. ref' = Read(Read(Seen, Char(1)), Char(2)) /\ ref' \in ReaderType /\ IsRest(cp)' BY <2>1, <2>2, TakeTwo
  <2>4. Read(Seen, Char(1)) = s BY <1>1, <1>6, <1>8 DEF InLiteral
  <2>5. s \in ReaderType /\ Same(s, Seen) /\ s.mode = e BY <1>1, <1>3, WithMode, WithModeFields
  <2> HIDE DEF s
  <2>6. ref' = [s EXCEPT !.mode = m]
    <3>1. ref' = Read(s, Char(2)) BY <2>3, <2>4
    <3>2. CASE incomment = "CHAR" BY <3>1, <3>2, <2>5, <1>8 DEF Read, InLiteral
    <3>3. CASE incomment = "STRING" BY <3>1, <3>3, <2>5, <1>8 DEF Read, InLiteral
    <3> QED BY <3>2, <3>3, <1>1
  <2>7. Same(ref', s) /\ ref'.mode = m BY <2>5, <2>6, <1>3, WithModeFields
  <2>8. Same(ref', Seen) /\ ref'.valid BY <2>5, <2>7, <1>1 DEF Same
  <2>9. LineTypeInv' /\ ModeInv' /\ ~Slash' /\ Seen' = ref' BY <1>2, <1>4, <1>5, <2>1, <2>3, <2>7, <2>8, TurnOf
  <2>10. Quiet BY <1>1, <2>1, <2>8, <2>9 DEF Quiet
  <2> QED BY <1>1, <2>1, <2>9, <2>10 DEF Turn
<1>9. CASE Char(1) \notin { Quote, "bs", "nl" }
  <2>1. Take(1) /\ incomment' = incomment /\ linestate' = linestate /\ UNCHANGED <<pc, wascomment, retval>>
    BY <1>1, <1>9 DEF Literal, Go
  <2>2. ref' = Read(Seen, Char(1)) /\ ref' \in ReaderType /\ IsRest(cp)' BY <2>1, TakeOne
  <2>3. ref' = Seen BY <2>2, <1>1, <1>6, <1>9 DEF InLiteral, Quote
  <2>4. LineTypeInv' /\ ModeInv' /\ ~Slash' /\ Seen' = ref' BY <1>1, <1>2, <1>4, <1>5, <2>1, <2>2, <2>3, TurnOf
  <2>5. Quiet BY <1>1, <2>1, <2>3, <2>4 DEF Quiet, Same
  <2> QED BY <1>1, <2>1, <2>4, <2>5 DEF Turn
<1> QED BY <1>7, <1>8, <1>9 DEF Literal

(* The reader is behind a star in a comment, the parser has seen that the   *)
(* comment does not end there.                                              *)
LEMMA StarTurn ==
  ASSUME LineTypeInv, ModeInv, ref' \in ReaderType, IsRest(cp)', Same(ref', Seen), ref'.mode = "star",
         incomment' = "C", linestate' = linestate, UNCHANGED <<pc, wascomment, retval>>,
         Char(1)' \notin { "end", "cont", "/" }
  PROVE  Turn
<1>1. Seen.valid BY SeenMode
<1>2. ref'.valid BY <1>1 DEF Same
<1>3. "C" \in Comments BY DEF Comments
<1>4. Seen' = After(ref', "C") BY DEF Seen
<1>5. Seen'.mode = "block" /\ Same(Seen', ref') BY <1>3, <1>4, AfterFields
<1>6. LineTypeInv' BY <1>3 DEF LineTypeInv
<1>7. ~Slash' BY DEF Slash
<1>8. ModeInv' BY <1>2, <1>5, <1>7 DEF ModeInv, SameComment
<1>9. Same(Seen', Seen) BY <1>5 DEF Same
<1>10. Quiet BY <1>7, <1>9 DEF Quiet
<1> QED BY <1>6, <1>8, <1>10 DEF Turn

LEMMA CCommentTurn ==
  ASSUME LineTypeInv, ModeInv, cp # <<>>, Char(1) # "cont", CComment
  PROVE  Turn
<1>1. Seen \in ReaderType /\ Seen.valid /\ Seen.mode = "block" BY SeenMode DEF CComment
<1>2. linestate \in LineStates /\ IsRest(cp) BY DEF LineTypeInv
<1>3. \A m \in { "star", "code", "block" } : m \in Modes BY DEF Modes
<1> DEFINE s == [Seen EXCEPT !.mode = "star"]
<1>4. s \in ReaderType /\ Same(s, Seen) /\ s.mode = "star" BY <1>1, <1>3, WithMode, WithModeFields
<1>5. Read(Seen, "*") = s BY <1>1 DEF Read, InComment
<1> HIDE DEF s
<1>6. CASE Char(1) = "*" /\ Char(2) \in { "cont", "/" }
  <2>1. Char(1) \notin Ends BY <1>6 DEF Ends
  <2>2. CASE Char(2) = "cont"
    <3>1. Take(2) /\ incomment' = "FINISHING" /\ linestate' = linestate /\ UNCHANGED <<pc, wascomment, retval>>
      BY <1>6, <2>2 DEF CComment, Go
    <3>2. ref' = Read(s, "cont") /\ ref' \in ReaderType /\ IsRest(cp)' /\ cp' = <<>>
      BY <1>5, <1>6, <2>1, <2>2, <3>1, TakeTwo DEF Ends
    <3>3. /\ ref'.mode = "star" /\ ref'.phase = Seen.phase /\ ref'.kw = Seen.kw /\ ref'.behind = Seen.behind
          /\ ref'.entered = Seen.entered /\ ref'.valid = Seen.valid /\ ref'.odd = (Seen.odd \/ Seen.phase = "hash")
      BY <1>4, <3>2, ReadCont DEF Same
    <3>4. <<"FINISHING", "star">> \in SameComment /\ "FINISHING" \in Comments BY DEF SameComment, Comments
    <3>5. LineTypeInv' /\ ModeInv' /\ ~Slash' /\ Seen' = ref' BY <1>1, <1>2, <3>1, <3>2, <3>3, <3>4, TurnOf
    <3>6. Spliced BY <3>1, <3>2, <3>3, <3>5 DEF Spliced
    <3> QED BY <3>1, <3>5, <3>6 DEF Turn
  <2>3. CASE Char(2) = "/"
    <3>1. Take(2) /\ incomment' = "NO" /\ linestate' = linestate /\ UNCHANGED <<pc, wascomment, retval>>
      BY <1>6, <2>3 DEF CComment, Go
    <3>2. ref' = Read(s, "/") /\ ref' \in ReaderType /\ IsRest(cp)' /\ cp' # <<>>
      BY <1>5, <1>6, <2>1, <2>3, <3>1, TakeTwo DEF Ends
    <3>3. ref' = [s EXCEPT !.mode = "code"] BY <1>4, <3>2 DEF Read, InComment
    <3>4. ref'.mode = "code" /\ Same(ref', s) BY <1>3, <1>4, <3>3, WithModeFields
    <3>5. Same(ref', Seen) /\ ref'.valid BY <1>1, <1>4, <3>4 DEF Same
    <3>6. <<"NO", "code">> \in SameComment /\ "NO" \in Comments BY DEF SameComment, Comments
    <3>7. LineTypeInv' /\ ModeInv' /\ ~Slash' /\ Seen' = ref' BY <1>2, <3>1, <3>2, <3>4, <3>5, <3>6, TurnOf
    <3>8. Quiet BY <3>1, <3>2, <3>5, <3>7 DEF Quiet
    <3> QED BY <3>1, <3>7, <3>8 DEF Turn
  <2> QED BY <1>6, <2>2, <2>3
<1>7. CASE ~(Char(1) = "*" /\ Char(2) \in { "cont", "/" })
  <2>1. Take(1) /\ incomment' = "C" /\ linestate' = linestate /\ UNCHANGED <<pc, wascomment, retval>>
    BY <1>7 DEF CComment, Go
  <2>2. ref' = Read(Seen, Char(1)) /\ ref' \in ReaderType /\ IsRest(cp)' /\ Char(1)' = Char(2) BY <2>1, TakeOne
  <2>3. CASE Char(1) = "*"
    <3>1. ref' = s BY <1>5, <2>2, <2>3
    <3>2. Char(2) \in Tokens BY <1>2, <2>3, RestFacts DEF Ends
    <3>3. Char(1)' \notin { "end", "cont", "/" } BY <1>7, <2>2, <2>3, <3>2 DEF Tokens, Words, Keywords, Ends
    <3> QED BY <1>4, <2>1, <2>2, <3>1, <3>3, StarTurn
  <2>4. CASE Char(1) # "*"
    <3>1. ref' = [Seen EXCEPT !.mode = "block"] BY <1>1, <2>2, <2>4 DEF Read, InComment
    <3>2. ref'.mode = "block" /\ Same(ref', Seen) BY <1>1, <1>3, <3>1, WithModeFields
    <3>3. ref'.valid BY <1>1, <3>2 DEF Same
    <3>4. <<"C", "block">> \in SameComment /\ "C" \in Comments BY DEF SameComment, Comments
    <3>5. LineTypeInv' /\ ModeInv' /\ ~Slash' /\ Seen' = ref' BY <1>2, <2>1, <2>2, <3>2, <3>3, <3>4, TurnOf
    <3>6. Quiet BY <2>1, <3>2, <3>5 DEF Quiet
    <3> QED BY <2>1, <3>5, <3>6 DEF Turn
  <2> QED BY <2>3, <2>4
<1> QED BY <1>6, <1>7

LEMMA StartingCommentTurn ==
  ASSUME LineTypeInv, ModeInv, cp # <<>>, Char(1) # "cont", StartingComment
  PROVE  Turn
<1>1. Seen \in ReaderType /\ Seen.valid /\ Seen.mode = "slash" /\ incomment = "STARTING" BY SeenMode DEF StartingComment
<1>2. linestate \in LineStates /\ IsRest(cp) /\ ref \in ReaderType BY DEF LineTypeInv
<1>3. Seen = ref BY <1>1 DEF Seen, After
<1>4. CASE Char(1) \in { "*", "/" }
  <2> DEFINE in == IF Char(1) = "*" THEN "C" ELSE "CXX"
             m  == IF Char(1) = "*" THEN "block" ELSE "line"
  <2>1. Go(1, in, linestate) BY <1>4 DEF StartingComment
  <2>2. Take(1) /\ incomment' = in /\ linestate' = linestate /\ UNCHANGED <<pc, wascomment, retval>> BY <2>1 DEF Go
  <2>3. ref' = Read(Seen, Char(1)) /\ ref' \in ReaderType /\ IsRest(cp)' BY <2>2, TakeOne
  <2>4. ref' = [Seen EXCEPT !.mode = m] BY <1>1, <1>4, <2>3 DEF Read
  <2>5. m \in Modes /\ <<in, m>> \in SameComment /\ in \in Comments /\ in \notin { "NO", "STARTING" }
    BY <1>4 DEF Modes, SameComment, Comments
  <2> HIDE DEF m, in
  <2>6. ref'.mode = m /\ Same(ref', Seen) BY <1>1, <2>4, <2>5, WithModeFields
  <2>7. ref'.valid BY <1>1, <2>6 DEF Same
  <2>8. LineTypeInv' /\ ModeInv' /\ ~Slash' /\ Seen' = ref' BY <1>2, <2>2, <2>3, <2>5, <2>6, <2>7, TurnOf
  <2>9. Quiet BY <2>2, <2>5, <2>6, <2>8 DEF Quiet
  <2> QED BY <2>2, <2>5, <2>8, <2>9 DEF Turn
<1>5. CASE Char(1) \notin { "*", "/" }
  <2>1. Take(0) /\ incomment' = "NO" /\ linestate' = "DIRTY" /\ UNCHANGED <<pc, wascomment, retval>>
    BY <1>5 DEF StartingComment, Go
  <2>2. ref' = ref /\ cp' = cp BY <2>1, TakeNone
  <2>3. "NO" \in Comments /\ "DIRTY" \in LineStates /\ "/" \in Tokens BY DEF Comments, LineStates, Tokens
  <2>4. LineTypeInv' BY <2>1, <2>2, <2>3 DEF LineTypeInv
  <2>5. Slash' /\ ~Star' BY <1>1, <1>3, <2>1, <2>2 DEF Slash, Star
  <2>6. Seen' = After(ref, "NO") BY <2>1, <2>2 DEF Seen
  <2>7. Same(Seen', Visible(ref, "/")) /\ Seen'.mode = "code" BY <1>1, <1>2, <1>3, <2>3, <2>6, AfterFields
  <2>8. Char(1)' = Char(1) BY <2>2 DEF Char
  <2>9. Char(1) # "end" BY <1>2, RestFacts
  <2>10. ModeInv' BY <1>1, <1>3, <1>5, <2>1, <2>2, <2>5, <2>7, <2>8, <2>9 DEF ModeInv, SameComment
  <2>11. Slashed BY <1>3, <2>1, <2>2, <2>5, <2>7 DEF Slashed
  <2> QED BY <1>1, <2>1, <2>4, <2>10, <2>11 DEF Turn
<1> QED BY <1>4, <1>5

LEMMA FinishingCommentTurn ==
  ASSUME LineTypeInv, ModeInv, cp # <<>>, Char(1) # "cont", FinishingComment
  PROVE  Turn
<1>1. Seen \in ReaderType /\ Seen.valid /\ Seen.mode = "star" /\ incomment = "FINISHING" BY SeenMode DEF FinishingComment
<1>2. linestate \in LineStates /\ IsRest(cp) BY DEF LineTypeInv
<1>3. Seen = ref BY <1>1 DEF Seen, After
<1>4. CASE Char(1) = "/"
  <2>1. Take(1) /\ incomment' = "NO" /\ linestate' = linestate /\ UNCHANGED <<pc, wascomment, retval>>
    BY <1>4 DEF FinishingComment, Go
  <2>2. ref' = Read(Seen, "/") /\ ref' \in ReaderType /\ IsRest(cp)' /\ cp' # <<>> BY <1>4, <2>1, TakeOne DEF Ends
  <2>3. ref' = [Seen EXCEPT !.mode = "code"] BY <1>1, <2>2 DEF Read, InComment
  <2>4. "code" \in Modes BY DEF Modes
  <2>5. ref'.mode = "code" /\ Same(ref', Seen) BY <1>1, <2>3, <2>4, WithModeFields
  <2>6. ref'.valid BY <1>1, <2>5 DEF Same
  <2>7. <<"NO", "code">> \in SameComment /\ "NO" \in Comments BY DEF SameComment, Comments
  <2>8. LineTypeInv' /\ ModeInv' /\ ~Slash' /\ Seen' = ref' BY <1>2, <2>1, <2>2, <2>5, <2>6, <2>7, TurnOf
  <2>9. Quiet BY <2>1, <2>2, <2>5, <2>8 DEF Quiet
  <2> QED BY <2>1, <2>8, <2>9 DEF Turn
<1>5. CASE Char(1) # "/"
  <2>1. Take(0) /\ incomment' = "C" /\ linestate' = linestate /\ UNCHANGED <<pc, wascomment, retval>>
    BY <1>5 DEF FinishingComment, Go
  <2>2. ref' = ref /\ cp' = cp BY <2>1, TakeNone
  <2>3. ref' \in ReaderType /\ Same(ref', Seen) /\ ref'.mode = "star" BY <1>1, <1>3, <2>2 DEF Same
  <2>4. IsRest(cp)' BY <1>2, <2>2
  <2>5. Char(1)' = Char(1) /\ Char(1) # "end" BY <1>2, <2>2, RestFacts DEF Char
  <2> QED BY <1>5, <2>1, <2>3, <2>4, <2>5, StarTurn
<1> QED BY <1>4, <1>5

LEMMA SkipCommentTurn ==
  ASSUME LineTypeInv, ModeInv, SkipComment
  PROVE  Turn /\ cp # <<>> /\ ~Stopped /\ pc \in Calls /\ UNCHANGED <<pc, wascomment, retval>>
<1>1. cp # <<>> /\ ~Stopped /\ pc \in Calls BY DEF SkipComment, Stopped
<1>2. CASE Char(1) = "cont"
  <2>1. Go(1, incomment, linestate) BY <1>2 DEF SkipComment
  <2> QED BY <1>1, <1>2, <2>1, Continuation DEF Go
<1>3. CASE Char(1) # "cont"
  <2>1. NoComment \/ CxxComment \/ Literal \/ CComment \/ StartingComment \/ FinishingComment BY <1>3 DEF SkipComment
  <2>2. Turn
    BY <1>1, <1>3, <2>1, NoCommentTurn, CxxCommentTurn, LiteralTurn, CCommentTurn, StartingCommentTurn, FinishingCommentTurn
  <2>3. UNCHANGED <<pc, wascomment, retval>>
    BY <2>1 DEF NoComment, CxxComment, Literal, CComment, StartingComment, FinishingComment, Go
  <2> QED BY <1>1, <2>2, <2>3
<1> QED BY <1>2, <1>3

LEMMA SeenRef ==
  ASSUME LineTypeInv
  PROVE  /\ ~Slash => Same(Seen, ref)
         /\ Seen.odd = ref.odd /\ Seen.entered = ref.entered
<1>1. ref \in ReaderType /\ incomment \in Comments /\ "/" \in Tokens BY DEF LineTypeInv, Tokens
<1>2. Visible(ref, "/").odd = ref.odd /\ Visible(ref, "/").entered = ref.entered BY <1>1, VisibleFields
<1> QED BY <1>1, <1>2, AfterFields DEF Seen, Slash, Same

LEMMA SeenRefNext ==
  ASSUME LineTypeInv'
  PROVE  /\ ~Slash' => Same(Seen', ref')
         /\ Seen'.odd = ref'.odd /\ Seen'.entered = ref'.entered
<1>1. ref' \in ReaderType /\ incomment' \in Comments /\ "/" \in Tokens BY DEF LineTypeInv, Tokens
<1>2. Visible(ref', "/").odd = ref'.odd /\ Visible(ref', "/").entered = ref'.entered BY <1>1, VisibleFields
<1>3. Seen' = After(ref', incomment') BY DEF Seen
<1>4. ~Slash' => Same(Seen', ref') BY <1>1, <1>3, AfterFields DEF Slash
<1>5. Slash' => Same(Seen', Visible(ref', "/")) BY <1>1, <1>3, AfterFields DEF Slash
<1> QED BY <1>2, <1>4, <1>5 DEF Same

LEMMA SkipCommentPlace ==
  ASSUME LineTypeInv, ModeInv, PlaceInv, SkipComment
  PROVE  PlaceInv'
<1>1. Turn /\ cp # <<>> /\ pc \in Calls /\ pc' = pc BY SkipCommentTurn
<1>2. linestate = "START" => pc = "begin" BY <1>1 DEF PlaceInv, Calls
<1>3. linestate = "HASH" => pc # "tail" BY <1>1 DEF PlaceInv
<1>4. incomment = "STARTING" => pc = "begin" BY <1>1 DEF PlaceInv
<1>5. pc' # "fgets" BY <1>1 DEF Calls
<1>6. incomment' = "STARTING" => cp' = <<>> BY <1>1 DEF Turn
<1>7. Slash' => linestate' = "DIRTY" /\ pc' = "begin" BY <1>1, <1>4 DEF Turn, Quiet, Spliced, Newline, Quoted, Slashed
<1>8. linestate' = "START" => pc' = "begin" \/ cp' = <<>> BY <1>1, <1>2 DEF Turn, Quiet, Spliced, Newline, Quoted, Slashed
<1>9. linestate' = "HASH" => pc' # "tail" \/ cp' = <<>> BY <1>1, <1>3 DEF Turn, Quiet, Spliced, Newline, Quoted, Slashed
<1>10. linestate' = "START" => pc' = "begin" \/ incomment' = "NO" BY <1>1, <1>2 DEF Turn, Quiet, Spliced, Newline, Quoted, Slashed
<1> QED BY <1>5, <1>6, <1>7, <1>8, <1>9, <1>10 DEF PlaceInv

LEMMA DirtyNext ==
  ASSUME NEW r \in ReaderType, NEW t \in Tokens \ { "#" }
  PROVE  Visible(r, t).phase \notin { "start", "hash" }
BY VisibleFields DEF Keywords

LEMMA SkipCommentPhase ==
  ASSUME LineTypeInv, ModeInv, PlaceInv, PhaseInv, SkipComment
  PROVE  PhaseInv'
<1>1. Turn /\ cp # <<>> /\ ~Stopped /\ pc \in Calls /\ pc' = pc BY SkipCommentTurn
<1>2. ~DirtAhead BY <1>1 DEF DirtAhead
<1>3. /\ ~ref.odd /\ pc \in { "begin", "hash", "tail" } => SamePhase
      /\ ~ref.odd /\ pc \in { "argument", "ending" } => (linestate # "HASH" /\ SamePhase) \/ BehindKeyword
  BY <1>2 DEF PhaseInv
<1>4. Seen.odd = ref.odd /\ Seen'.odd = ref'.odd /\ Seen \in ReaderType BY <1>1, SeenRef, SeenRefNext, SeenType DEF Turn
<1>5. linestate = "HASH" => ref.phase = Seen.phase BY SeenRef DEF PlaceInv, Same
<1>6. ~Slash' => ref'.phase = Seen'.phase BY <1>1, SeenRefNext DEF Turn, Same
<1>7. \A t \in { "'", "quote", "/" } : t \in Tokens \ { "#" } BY DEF Tokens
<1>8. ASSUME ~ref'.odd
      PROVE  /\ pc \in { "begin", "hash", "tail" } => SamePhase'
             /\ pc \in { "argument", "ending" } => (linestate' # "HASH" /\ SamePhase') \/ BehindKeyword'
  <2>1. CASE Quiet \/ Spliced
    <3>1. linestate' = linestate /\ ref'.phase = Seen'.phase /\ Seen'.phase = Seen.phase /\ ~ref.odd
      BY <1>4, <1>6, <1>8, <2>1 DEF Quiet, Spliced, Same, ReaderType
    <3>2. SamePhase => SamePhase' BY <3>1 DEF SamePhase
    <3>3. BehindKeyword => BehindKeyword' BY <1>5, <3>1 DEF BehindKeyword
    <3> QED BY <1>3, <3>1, <3>2, <3>3
  <2>2. CASE Newline BY <2>2 DEF Newline, SamePhase
  <2>3. CASE Quoted
    <3>1. Seen'.phase \notin { "start", "hash" } BY <1>4, <1>7, <2>3, DirtyNext DEF Quoted, Same
    <3> QED BY <2>3, <3>1 DEF Quoted, SamePhase
  <2>4. CASE Slashed
    <3>1. Seen'.phase \notin { "start", "hash" } BY <1>4, <1>7, <2>4, DirtyNext DEF Slashed, Same
    <3> QED BY <2>4, <3>1 DEF Slashed, SamePhase
  <2> QED BY <1>1, <2>1, <2>2, <2>3, <2>4 DEF Turn
<1>9. ASSUME cp' = <<>>, IsDirective', pc \in { "begin", "hash" } PROVE ref'.odd
  <2>1. Spliced BY <1>1, <1>9 DEF Turn, Quiet, Newline, Quoted, Slashed, IsDirective
  <2>2. linestate = "HASH" BY <1>9, <2>1 DEF Spliced, IsDirective
  <2>3. CASE ref.odd BY <1>4, <2>1, <2>3 DEF Spliced
  <2>4. CASE ~ref.odd
    <3>1. SamePhase BY <1>3, <1>9, <2>4
    <3>2. Seen.phase = "hash" BY <2>2, <3>1 DEF SamePhase
    <3> QED BY <1>4, <2>1, <3>2 DEF Spliced
  <2> QED BY <2>3, <2>4
<1> QED BY <1>1, <1>8, <1>9 DEF PhaseInv, Calls

LEMMA QuotedFields ==
  ASSUME NEW r \in ReaderType, NEW t \in { "'", "quote", "/" }
  PROVE  /\ Visible(r, t).kw = IF r.phase = "hash" THEN "PLAIN" ELSE r.kw
         /\ r.phase \notin Keywords => Visible(r, t).phase \notin Keywords
         /\ r.phase \in Keywords /\ t # "/" => Same(Visible(r, t), r)
<1>1. t \in Tokens \ (Words \cup { "#" }) BY DEF Tokens, Words, Keywords
<1>2. t \notin Keywords BY <1>1 DEF Words
<1>3. TypeOfWord(t) = "PLAIN" BY DEF TypeOfWord
<1>4. Visible(r, t).kw = IF r.phase = "hash" THEN "PLAIN" ELSE r.kw BY <1>1, <1>3, VisibleFields
<1>5. r.phase \notin Keywords => Visible(r, t).phase \notin Keywords BY <1>1, <1>2, VisibleFields DEF Keywords
<1>6. ASSUME r.phase \in Keywords, t # "/" PROVE Same(Visible(r, t), r)
  <2>1. Behind(r, t) = r.behind BY <1>6 DEF Behind
  <2>2. r.phase \notin { "start", "hash" } BY <1>6 DEF Keywords
  <2> QED BY <1>1, <1>6, <2>1, <2>2, VisibleFields DEF Same
<1> QED BY <1>4, <1>5, <1>6

(* The keyword of the line and what follows it are passed over by no turn.  *)
LEMMA TurnKeeps ==
  ASSUME LineTypeInv, Turn, pc # "begin" => incomment # "STARTING"
  PROVE  /\ Seen'.entered = Seen.entered
         /\ Seen.kw = "PLAIN" => Seen'.kw = "PLAIN"
         /\ Seen.phase \notin Keywords => Seen'.phase \notin Keywords
         /\ Seen.phase \in Keywords /\ pc # "begin" =>
              /\ Seen'.kw = Seen.kw /\ Seen'.behind = Seen.behind
              /\ Seen'.phase = Seen.phase \/ cp' = <<>>
<1>1. Seen \in ReaderType BY SeenType
<1>2. "start" \notin Keywords BY DEF Keywords
<1>3. CASE Quiet \/ Spliced \/ Newline BY <1>2, <1>3 DEF Quiet, Spliced, Newline, Same
<1>4. CASE Quoted
  <2>1. PICK t \in { "'", "quote" } : Same(Seen', Visible(Seen, t)) BY <1>4 DEF Quoted
  <2>2. t \in Tokens BY DEF Tokens
  <2>3. Visible(Seen, t).entered = Seen.entered BY <1>1, <2>2, VisibleFields
  <2>4. /\ Visible(Seen, t).kw = IF Seen.phase = "hash" THEN "PLAIN" ELSE Seen.kw
        /\ Seen.phase \notin Keywords => Visible(Seen, t).phase \notin Keywords
        /\ Seen.phase \in Keywords => Same(Visible(Seen, t), Seen)
    BY <1>1, QuotedFields
  <2> QED BY <2>1, <2>3, <2>4 DEF Same
<1>5. CASE incomment = "STARTING" /\ Slashed
  <2>1. Same(Seen', Visible(Seen, "/")) BY <1>5 DEF Slashed
  <2>2. "/" \in Tokens BY DEF Tokens
  <2>3. Visible(Seen, "/").entered = Seen.entered BY <1>1, <2>2, VisibleFields
  <2>4. /\ Visible(Seen, "/").kw = IF Seen.phase = "hash" THEN "PLAIN" ELSE Seen.kw
        /\ Seen.phase \notin Keywords => Visible(Seen, "/").phase \notin Keywords
    BY <1>1, QuotedFields
  <2> QED BY <1>5, <2>1, <2>3, <2>4 DEF Same
<1> QED BY <1>3, <1>4, <1>5 DEF Turn

LEMMA SkipCommentDirective ==
  ASSUME LineTypeInv, ModeInv, PlaceInv, PhaseInv, DirectiveInv, SkipComment
  PROVE  DirectiveInv'
<1>1. Turn /\ cp # <<>> /\ ~Stopped /\ pc \in Calls /\ UNCHANGED <<pc, wascomment, retval>> BY SkipCommentTurn
<1>2. pc # "begin" => incomment # "STARTING" BY <1>1 DEF PlaceInv
<1>3. Seen'.entered = ref'.entered /\ Seen'.odd = ref'.odd /\ (~Slash' => Same(Seen', ref')) BY <1>1, SeenRefNext DEF Turn
<1>4. Seen.entered = ref.entered /\ Seen.odd = ref.odd /\ (~Slash => Same(Seen, ref)) BY SeenRef
<1>5. ref \in ReaderType /\ Seen \in ReaderType BY SeenType DEF LineTypeInv
<1>6. /\ Seen'.entered = Seen.entered
      /\ Seen.kw = "PLAIN" => Seen'.kw = "PLAIN"
      /\ Seen.phase \notin Keywords => Seen'.phase \notin Keywords
      /\ Seen.phase \in Keywords /\ pc # "begin" =>
           /\ Seen'.kw = Seen.kw /\ Seen'.behind = Seen.behind
           /\ Seen'.phase = Seen.phase \/ cp' = <<>>
  BY <1>1, <1>2, TurnKeeps
<1>7. Slash' => ref' = ref /\ pc = "begin" BY <1>1, <1>2 DEF Turn, Quiet, Spliced, Newline, Quoted, Slashed
<1> SUFFICES ASSUME ref'.entered # "odd"
             PROVE  /\ ref'.odd => cp' = <<>>
                    /\ wascomment' = "NO" <=> ref'.entered = "code"
                    /\ ~ref'.odd =>
                         /\ pc' \in { "begin", "hash" } => AtBegin'
                         /\ pc' = "argument" => AtArgument'
                         /\ pc' = "ending" => AtEnding'
                         /\ pc' = "tail" => AtTail'
                         /\ pc' = "fgets" => DirectivesFound'
  BY DEF DirectiveInv
<1>8. ref.entered # "odd" /\ ref'.entered = ref.entered BY <1>3, <1>4, <1>6
<1>9. ~ref.odd BY <1>1, <1>8 DEF DirectiveInv
<1>10. wascomment = "NO" <=> ref.entered = "code" BY <1>8 DEF DirectiveInv
<1>11. ref'.odd => cp' = <<>>
  <2>1. "'" \in Tokens /\ "quote" \in Tokens /\ "/" \in Tokens BY DEF Tokens
  <2>2. \A t \in { "'", "quote", "/" } : ~Visible(Seen, t).odd BY <1>4, <1>5, <1>9, <2>1, VisibleFields
  <2>3. Quiet \/ Quoted \/ Slashed => ~Seen'.odd BY <1>4, <1>9, <2>2 DEF Quiet, Quoted, Slashed, Same
  <2>4. Spliced \/ Newline => cp' = <<>> BY DEF Spliced, Newline
  <2> QED BY <1>1, <1>3, <2>3, <2>4 DEF Turn
<1>12. ref.kw = "PLAIN" => ref'.kw = "PLAIN"
  <2>1. "/" \in Tokens BY DEF Tokens
  <2>2. ref.kw = "PLAIN" => Seen.kw = "PLAIN"
    <3>1. CASE ~Slash BY <1>4, <3>1 DEF Same
    <3>2. CASE Slash
      <4>1. incomment \in Comments BY DEF LineTypeInv
      <4>2. Same(Seen, Visible(ref, "/")) BY <1>5, <3>2, <4>1, AfterFields DEF Seen, Slash
      <4>3. Visible(ref, "/").kw = IF ref.phase = "hash" THEN "PLAIN" ELSE ref.kw BY <1>5, QuotedFields
      <4> QED BY <4>2, <4>3 DEF Same
    <3> QED BY <3>1, <3>2
  <2>3. CASE Slash' BY <1>7, <2>3
  <2>4. CASE ~Slash' BY <1>3, <1>6, <2>2, <2>4 DEF Same
  <2> QED BY <2>3, <2>4
<1>13. CASE pc \in { "begin", "hash" }
  <2>1. AtBegin BY <1>8, <1>9, <1>13 DEF DirectiveInv
  <2>2. AtBegin' BY <1>1, <1>12, <2>1 DEF AtBegin
  <2> QED BY <1>1, <1>8, <1>10, <1>11, <1>13, <2>2
<1>14. ASSUME pc # "begin", Seen.phase \in Keywords
       PROVE  ref'.kw = Seen.kw /\ ref'.behind = Seen.behind /\ (Seen'.phase = Seen.phase \/ cp' = <<>>)
  BY <1>3, <1>6, <1>7, <1>14 DEF Same
<1>15. CASE pc = "argument"
  <2>1. AtArgument BY <1>8, <1>9, <1>15 DEF DirectiveInv
  <2>2. ~Slash /\ ~Slash' BY <1>7, <1>15 DEF PlaceInv
  <2>3. ref.phase = "ifdef" /\ Seen.phase = "ifdef" BY <1>1, <1>4, <2>1, <2>2 DEF AtArgument, Same
  <2>4. "ifdef" \in Keywords BY DEF Keywords
  <2>5. ref'.kw = "IF" /\ ref'.behind = "nothing" BY <1>4, <1>14, <1>15, <2>1, <2>2, <2>3, <2>4 DEF AtArgument, Same
  <2>6. Seen'.phase = "ifdef" \/ cp' = <<>> BY <1>14, <1>15, <2>3, <2>4
  <2>7. ref'.phase = "ifdef" \/ cp' = <<>> BY <1>3, <2>2, <2>6 DEF Same
  <2>8. AtArgument' BY <2>4, <2>5, <2>6, <2>7 DEF AtArgument, OnDirective, TypeOfWord
  <2> QED BY <1>1, <1>8, <1>10, <1>11, <1>15, <2>8
<1>16. CASE pc = "ending"
  <2>1. AtEnding BY <1>8, <1>9, <1>16 DEF DirectiveInv
  <2>2. ~Slash /\ ~Slash' BY <1>7, <1>16 DEF PlaceInv
  <2>3. CASE ref.kw = "PLAIN"
    <3>1. ref'.kw = "PLAIN" BY <1>12, <2>3
    <3>2. retval.type \notin { "TRUE", "IF" } /\ IsType("PLAIN") BY <2>1, <2>3 DEF AtEnding, IsType
    <3> QED BY <1>1, <1>8, <1>10, <1>11, <1>16, <3>1, <3>2 DEF AtEnding, IsType
  <2>4. CASE ref.kw # "PLAIN"
    <3>1. Seen.phase \in Keywords BY <1>1, <2>1, <2>4 DEF AtEnding, OnDirective
    <3>2. ref'.kw = ref.kw /\ ref'.behind = ref.behind BY <1>4, <1>14, <1>16, <2>2, <3>1 DEF Same
    <3>3. Seen'.phase = Seen.phase \/ cp' = <<>> BY <1>14, <1>16, <3>1
    <3>4. ref'.phase = ref.phase \/ cp' = <<>> BY <1>3, <1>4, <2>2, <3>3 DEF Same
    <3>5. OnDirective' BY <1>1, <2>1, <2>4, <3>2, <3>3 DEF OnDirective, AtEnding
    <3>6. ~(retval.type = "IF" /\ ref.behind = "nothing") BY <1>1, <2>1 DEF AtEnding
    <3>7. ref'.kw = "IF" => ref'.phase = "ifdef" \/ cp' = <<>> BY <1>1, <2>1, <3>2, <3>4 DEF AtEnding
    <3>8. AtEnding' BY <1>1, <2>1, <2>4, <3>2, <3>5, <3>6, <3>7 DEF AtEnding, IsType
    <3> QED BY <1>1, <1>8, <1>10, <1>11, <1>16, <3>8
  <2> QED BY <2>3, <2>4
<1>17. CASE pc = "tail"
  <2>1. AtTail BY <1>8, <1>9, <1>17 DEF DirectiveInv
  <2>2. retval.type # "TRUE" BY <1>1, <2>1 DEF AtTail
  <2>3. CASE ref.kw = "PLAIN"
    <3>1. ref'.kw = "PLAIN" BY <1>12, <2>3
    <3>2. retval.type = "PLAIN" BY <2>1, <2>2, <2>3 DEF AtTail, IsType
    <3>3. AtTail' BY <1>1, <3>1, <3>2 DEF AtTail, IsType
    <3> QED BY <1>1, <1>8, <1>10, <1>11, <1>17, <3>3
  <2>4. CASE ref.kw # "PLAIN"
    <3>1. Seen.phase \in Keywords BY <1>1, <2>1, <2>4 DEF AtTail, OnDirective
    <3>2. ref'.kw = Seen.kw /\ ref'.behind = Seen.behind BY <1>14, <1>17, <3>1
    <3>3. Seen'.phase = Seen.phase \/ cp' = <<>> BY <1>14, <1>17, <3>1
    <3>4. Seen.kw = ref.kw
      <4>1. CASE ~Slash BY <1>4, <4>1 DEF Same
      <4>2. CASE Slash
        <5>1. incomment \in Comments BY DEF LineTypeInv
        <5>2. Same(Seen, Visible(ref, "/")) BY <1>5, <4>2, <5>1, AfterFields DEF Seen, Slash
        <5>3. Visible(ref, "/").phase \in Keywords BY <3>1, <5>2 DEF Same
        <5>4. ref.phase # "hash" BY <1>5, <5>3, QuotedFields DEF Keywords
        <5>5. Visible(ref, "/").kw = ref.kw BY <1>5, <5>4, QuotedFields
        <5> QED BY <5>2, <5>5 DEF Same
      <4> QED BY <4>1, <4>2
    <3>5. OnDirective' BY <1>1, <2>1, <2>4, <3>2, <3>3, <3>4 DEF OnDirective, AtTail
    <3>6. Junk => Seen.behind = "junk" BY <1>1 DEF Junk
    <3>7. Seen'.behind = Seen.behind BY <1>6, <1>17, <3>1
    <3>8. Junk => Junk' BY <3>6, <3>7 DEF Junk
    <3>9. retval.type # "PLAIN" /\ ~retval.dodgy => ref.entered = "code" /\ Junk BY <1>1, <2>1 DEF AtTail
    <3>10. AtTail' BY <1>1, <1>8, <2>1, <2>2, <3>2, <3>4, <3>5, <3>8, <3>9 DEF AtTail, IsType
    <3> QED BY <1>1, <1>8, <1>10, <1>11, <1>17, <3>10
  <2> QED BY <2>3, <2>4
<1> QED BY <1>1, <1>13, <1>15, <1>16, <1>17 DEF Calls

-----------------------------------------------------------------------------
(* getline34.                                                               *)

LEMMA Behaves ==
  ASSUME LineIInv, pc \notin { "error", "abort" }
  PROVE  /\ LineTypeInv /\ ModeInv /\ PlaceInv /\ PhaseInv /\ DirectiveInv
         /\ IsRest(cp) /\ ref \in ReaderType /\ incomment \in Comments /\ linestate \in LineStates
         /\ Seen \in ReaderType /\ retval \in [ type : Types, dodgy : BOOLEAN ]
BY SeenType DEF LineIInv, LineTypeInv

LEMMA NothingPending ==
  ASSUME LineTypeInv, ModeInv, cp = <<>>
  PROVE  ~Slash /\ ~Star /\ Seen = ref
<1>1. Char(1) = "end" BY RestFacts DEF LineTypeInv
<1>2. ~Slash /\ ~Star BY <1>1 DEF ModeInv
<1> QED BY <1>2 DEF Seen, After, Slash, Star

LEMMA StoppedAt ==
  ASSUME LineTypeInv, Stopped, cp # <<>>
  PROVE  /\ incomment = "NO" /\ Char(1) \in Tokens \ { "nl", "cont", "'", "quote", "sp" }
         /\ Char(2) \in Tokens
         /\ Char(1) = "/" => Char(2) \notin { "cont", "*", "/" }
<1>1. IsRest(cp) BY DEF LineTypeInv
<1>2. incomment = "NO" /\ Char(1) \notin Ends \cup { "'", "quote", "sp" } /\ ~(Char(1) = "/" /\ Char(2) \in { "cont", "*", "/" })
  BY DEF Stopped
<1> QED BY <1>1, <1>2, RestFacts DEF Ends

LEMMA Unmoved ==
  ASSUME UNCHANGED <<cp, ref, incomment>>
  PROVE  /\ Slash' = Slash /\ Star' = Star /\ Seen' = Seen /\ Stopped' = Stopped
         /\ Char(1)' = Char(1) /\ Char(2)' = Char(2)
         /\ ModeInv' = ModeInv
BY DEF Slash, Star, Seen, Stopped, Char, ModeInv

(* What skipcomment stops at is code, and no slash is pending behind it.    *)
LEMMA CodeRead ==
  ASSUME LineTypeInv, ModeInv, Stopped, cp # <<>>, Char(1) # "/", Take(1), incomment' = incomment
  PROVE  /\ ref' \in ReaderType /\ IsRest(cp)' /\ cp' # <<>>
         /\ ref'.mode = "code" /\ Same(ref', Visible(Seen, Char(1)))
         /\ ~Slash' /\ ~Star' /\ Seen' = ref' /\ ModeInv'
<1>1. incomment = "NO" /\ Char(1) \in Tokens \ { "nl", "cont", "'", "quote", "sp", "/" } BY StoppedAt
<1>2. Seen \in ReaderType /\ Seen.valid /\ Seen.mode = "code" BY <1>1, SeenMode
<1>3. ref' = Read(Seen, Char(1)) /\ ref' \in ReaderType /\ IsRest(cp)' /\ cp' # <<>> BY <1>1, TakeOne DEF Ends
<1>4. ref' = InCode(Seen, Char(1)) BY <1>1, <1>2, <1>3 DEF Read
<1>5. ref'.mode = "code" /\ Same(ref', Visible(Seen, Char(1))) BY <1>1, <1>2, <1>4, InCodeFields
<1>6. ref'.valid BY <1>1, <1>2, <1>5, VisibleFields DEF Same
<1>7. <<incomment', ref'.mode>> \in SameComment /\ incomment' \in Comments BY <1>1, <1>5 DEF SameComment, Comments
<1>8. ~Slash' /\ ~Star' /\ Seen' = ref' BY <1>3, <1>7, InStep
<1>9. ModeInv' BY <1>6, <1>7, <1>8 DEF ModeInv
<1> QED BY <1>3, <1>5, <1>8, <1>9

LEMMA LineInitHolds == Init => LineIInv
<1> SUFFICES ASSUME Init PROVE LineIInv OBVIOUS
<1>1. cp = <<>> /\ pc = "fgets" /\ ref = Reader /\ incomment = "NO" /\ linestate = "START" /\ wascomment = "NO"
      /\ retval = [ type |-> "PLAIN", dodgy |-> FALSE ]
  BY DEF Init
<1>2. IsRest(cp) BY <1>1 DEF IsRest
<1>3. ref \in ReaderType BY <1>1 DEF Reader, ReaderType, Modes, Phases, Types
<1>4. LineTypeInv BY <1>1, <1>2, <1>3 DEF LineTypeInv, Comments, LineStates, Types
<1>5. ~Slash /\ ~Star /\ Seen = ref BY <1>1 DEF Slash, Star, Seen, After, Reader
<1>6. ModeInv BY <1>1, <1>5 DEF ModeInv, Reader, SameComment
<1>7. PlaceInv BY <1>1, <1>5 DEF PlaceInv
<1>8. SamePhase BY <1>1, <1>5 DEF SamePhase, Reader
<1>9. PhaseInv BY <1>1, <1>8 DEF PhaseInv
<1>10. DirectivesFound BY <1>1 DEF DirectivesFound, Reader
<1>11. DirectiveInv BY <1>1, <1>10 DEF DirectiveInv, Reader
<1> QED BY <1>4, <1>6, <1>7, <1>9, <1>11 DEF LineIInv

LEMMA FgetsStep == LineIInv /\ Fgets => LineIInv'
<1> SUFFICES ASSUME LineIInv, Fgets PROVE LineIInv' OBVIOUS
<1>1. pc = "fgets" /\ cp' \in Lines /\ pc' = "begin" /\ wascomment' = incomment /\ ref' = LineBegins(ref)
      /\ retval' = [ type |-> "PLAIN", dodgy |-> FALSE ] /\ UNCHANGED <<incomment, linestate>>
  BY DEF Fgets
<1>2. /\ LineTypeInv /\ ModeInv /\ PlaceInv /\ PhaseInv
      /\ ref \in ReaderType /\ incomment \in Comments /\ linestate \in LineStates
  BY <1>1, Behaves
<1>3. cp = <<>> /\ Seen = ref /\ ~Slash BY <1>1, <1>2, NothingPending DEF PlaceInv
<1>4. IsRest(cp)' /\ cp' # <<>> BY <1>1, LinesAssumption DEF IsLine, IsRest
<1> DEFINE e == IF ref.odd THEN "odd" ELSE IF ref.mode = "code" THEN "code" ELSE "inside"
<1>5. ref' = [ref EXCEPT !.kw = "PLAIN", !.entered = e] BY <1>1 DEF LineBegins
<1>6. /\ ref' \in ReaderType /\ ref'.mode = ref.mode /\ ref'.phase = ref.phase /\ ref'.odd = ref.odd
      /\ ref'.valid = ref.valid /\ ref'.kw = "PLAIN" /\ ref'.entered = e
  BY <1>2, <1>5 DEF ReaderType, Types
<1>7. <<incomment', ref'.mode>> \in SameComment BY <1>1, <1>2, <1>3, <1>6 DEF ModeInv
<1>8. ~Slash' /\ ~Star' /\ Seen' = ref' BY <1>1, <1>2, <1>6, <1>7, InStep
<1>9. LineTypeInv' BY <1>1, <1>2, <1>4, <1>6 DEF LineTypeInv, Calls, Types
<1>10. ModeInv' BY <1>2, <1>6, <1>7, <1>8 DEF ModeInv
<1>11. PlaceInv' BY <1>1, <1>8 DEF PlaceInv
<1>12. SamePhase => SamePhase' BY <1>1, <1>3, <1>6, <1>8 DEF SamePhase
<1>13. PhaseInv' BY <1>1, <1>2, <1>4, <1>6, <1>12 DEF PhaseInv
<1>14. incomment = "NO" <=> ref.mode = "code" BY <1>2, <1>3 DEF ModeInv, SameComment
<1>15. AtBegin' BY <1>1, <1>6 DEF AtBegin
<1>16. DirectiveInv' BY <1>1, <1>6, <1>14, <1>15 DEF DirectiveInv
<1> QED BY <1>9, <1>10, <1>11, <1>13, <1>16 DEF LineIInv

LEMMA BeginStep == LineIInv /\ Begin => LineIInv'
<1> SUFFICES ASSUME LineIInv, Begin PROVE LineIInv' OBVIOUS
<1>1. pc = "begin" /\ Stopped /\ pc' = "hash" /\ UNCHANGED <<incomment, wascomment, retval>> BY DEF Begin, Returned
<1>2. /\ LineTypeInv /\ ModeInv /\ PlaceInv /\ PhaseInv /\ DirectiveInv
      /\ ref \in ReaderType /\ Seen \in ReaderType /\ IsRest(cp) /\ linestate \in LineStates
  BY <1>1, Behaves
<1>3. ~ref.odd => SamePhase BY <1>1, <1>2 DEF PhaseInv
<1>4. incomment = "STARTING" => cp = <<>> BY <1>1, <1>2, StoppedAt
<1>5. Char(1) = "end" <=> cp = <<>> BY <1>2, RestFacts
<1>6. ASSUME ref.entered # "odd"
      PROVE  /\ ref.odd => cp = <<>>
             /\ wascomment = "NO" <=> ref.entered = "code"
             /\ ~ref.odd => retval.type = "PLAIN" /\ ref.kw = "PLAIN"
  <2>1. ref.odd => cp = <<>> BY <1>2, <1>6 DEF DirectiveInv
  <2>2. wascomment = "NO" <=> ref.entered = "code" BY <1>2, <1>6 DEF DirectiveInv
  <2>3. ~ref.odd => AtBegin BY <1>1, <1>2, <1>6 DEF DirectiveInv
  <2> QED BY <2>1, <2>2, <2>3 DEF AtBegin
<1>7. CASE linestate = "START" /\ Char(1) = "#"
  <2>1. linestate' = "HASH" /\ Take(1) BY <1>7 DEF Begin
  <2>2. cp # <<>> /\ Char(1) \in Tokens BY <1>5, <1>7 DEF Tokens
  <2>3. /\ ref' \in ReaderType /\ IsRest(cp)' /\ cp' # <<>> /\ Same(ref', Visible(Seen, "#"))
        /\ ~Slash' /\ Seen' = ref' /\ ModeInv'
    BY <1>1, <1>2, <1>7, <2>1, <2>2, CodeRead
  <2>4. ~Slash BY <1>2, <1>7 DEF PlaceInv
  <2>5. Same(Seen, ref) BY <1>2, <2>4, SeenRef
  <2>6. ref'.odd = ref.odd /\ ref'.entered = ref.entered BY <1>2, <1>7, <2>2, <2>3, <2>5, VisibleFields DEF Same
  <2>7. ~ref.odd => Seen.phase = "start" BY <1>3, <1>7 DEF SamePhase
  <2>8. ~ref.odd => ref'.phase = "hash" /\ ref'.kw = ref.kw
    <3> SUFFICES ASSUME ~ref.odd PROVE ref'.phase = "hash" /\ ref'.kw = ref.kw OBVIOUS
    <3>1. Visible(Seen, "#").phase = "hash" /\ Visible(Seen, "#").kw = Seen.kw BY <1>2, <1>7, <2>2, <2>7, VisibleFields
    <3> QED BY <3>1, <2>3, <2>5 DEF Same
  <2>9. LineTypeInv' BY <1>1, <1>2, <2>1, <2>3 DEF LineTypeInv, Calls, LineStates
  <2>10. PlaceInv' BY <1>1, <1>4, <2>1, <2>2, <2>3 DEF PlaceInv
  <2>11. ~ref'.odd => SamePhase' BY <2>1, <2>3, <2>6, <2>8 DEF SamePhase
  <2>12. PhaseInv' BY <1>1, <2>3, <2>11 DEF PhaseInv
  <2>13. DirectiveInv' BY <1>1, <1>6, <2>2, <2>6, <2>8 DEF DirectiveInv, AtBegin
  <2> QED BY <2>3, <2>9, <2>10, <2>12, <2>13 DEF LineIInv
<1>8. CASE ~(linestate = "START" /\ Char(1) = "#")
  <2>1. /\ Take(0)
        /\ \/ linestate = "START" /\ cp # <<>> /\ linestate' = "DIRTY"
           \/ (linestate # "START" \/ cp = <<>>) /\ linestate' = linestate
    BY <1>5, <1>8 DEF Begin
  <2>2. UNCHANGED <<cp, ref, incomment>> BY <1>1, <1>2, <2>1, TakeNone
  <2>3. Slash' = Slash /\ Seen' = Seen /\ Stopped' = Stopped /\ Char(1)' = Char(1) /\ ModeInv' BY <1>2, <2>2, Unmoved
  <2>4. LineTypeInv' BY <1>1, <1>2, <2>1, <2>2 DEF LineTypeInv, Calls, LineStates
  <2>5. Slash => linestate = "DIRTY" BY <1>2 DEF PlaceInv
  <2>6. PlaceInv' BY <1>1, <1>4, <2>1, <2>2, <2>3, <2>5 DEF PlaceInv
  <2>7. ~ref.odd => SamePhase' \/ DirtAhead'
    <3>1. CASE linestate' = linestate BY <1>3, <2>3, <3>1 DEF SamePhase
    <3>2. CASE linestate = "START" /\ cp # <<>> /\ linestate' = "DIRTY"
      <4>1. ~Slash /\ incomment = "NO" BY <1>1, <1>2, <2>5, <3>2, StoppedAt
      <4>2. ~ref.odd => ref.phase = "start" BY <1>2, <1>3, <3>2, <4>1, SeenRef DEF SamePhase, Same
      <4> QED BY <1>1, <1>8, <2>2, <2>3, <3>2, <4>1, <4>2 DEF DirtAhead
    <3> QED BY <2>1, <3>1, <3>2
  <2>8. cp' = <<>> /\ IsDirective' => ref'.odd BY <1>1, <1>2, <2>1, <2>2 DEF PhaseInv, IsDirective
  <2>9. PhaseInv' BY <1>1, <2>2, <2>7, <2>8 DEF PhaseInv
  <2>10. DirectiveInv' BY <1>1, <1>6, <2>2 DEF DirectiveInv, AtBegin
  <2> QED BY <2>3, <2>4, <2>6, <2>9, <2>10 DEF LineIInv
<1> QED BY <1>7, <1>8

LEMMA NoDirectiveStep == LineIInv /\ NoDirective => LineIInv'
<1> SUFFICES ASSUME LineIInv, NoDirective PROVE LineIInv' OBVIOUS
<1>1. /\ pc = "hash" /\ Stopped /\ ~IsDirective /\ pc' = "tail"
      /\ UNCHANGED <<incomment, linestate, cp, wascomment, retval, ref>>
  BY DEF NoDirective, Returned
<1>2. LineTypeInv /\ ModeInv /\ PlaceInv /\ PhaseInv /\ DirectiveInv BY <1>1, Behaves
<1>3. Slash' = Slash /\ Seen' = Seen /\ Stopped' = Stopped /\ Char(1)' = Char(1) /\ ModeInv' BY <1>1, <1>2, Unmoved
<1>4. LineTypeInv' BY <1>1, <1>2 DEF LineTypeInv, Calls
<1>5. linestate = "HASH" => cp = <<>> BY <1>1, <1>2, StoppedAt DEF IsDirective
<1>6. PlaceInv' BY <1>1, <1>2, <1>3, <1>5 DEF PlaceInv
<1>7. ~ref.odd => SamePhase' \/ DirtAhead' BY <1>1, <1>2, <1>3 DEF PhaseInv, SamePhase, DirtAhead
<1>8. PhaseInv' BY <1>1, <1>7 DEF PhaseInv
<1>9. ref.entered # "odd" /\ ~ref.odd => AtBegin BY <1>1, <1>2 DEF DirectiveInv
<1>10. AtBegin => AtTail' BY <1>1 DEF AtBegin, AtTail, IsType
<1>11. DirectiveInv' BY <1>1, <1>2, <1>9, <1>10 DEF DirectiveInv
<1> QED BY <1>3, <1>4, <1>6, <1>8, <1>11 DEF LineIInv

LEMMA SkipSymReads ==
  ASSUME LineTypeInv, ModeInv, Stopped, SkipSym, incomment' = incomment
  PROVE  /\ ref' \in ReaderType /\ IsRest(cp)' /\ ModeInv'
         /\ Char(1) \in Words => /\ cp # <<>> /\ cp' # <<>> /\ incomment = "NO"
                                 /\ ~Slash' /\ Seen' = ref' /\ Same(ref', Visible(Seen, Char(1)))
         /\ Char(1) \notin Words => UNCHANGED <<cp, ref>> /\ Slash' = Slash /\ Seen' = Seen /\ Stopped' = Stopped /\ Char(1)' = Char(1)
<1>1. IsRest(cp) /\ ref \in ReaderType BY DEF LineTypeInv
<1>2. CASE Char(1) \in Words
  <2>1. Take(1) /\ Char(1) # "/" BY <1>2 DEF SkipSym, Words, Keywords
  <2>2. cp # <<>> BY <1>1, <1>2, RestFacts DEF Words, Keywords
  <2>3. incomment = "NO" BY <2>2, StoppedAt
  <2> QED BY <1>2, <2>1, <2>2, <2>3, CodeRead
<1>3. CASE Char(1) \notin Words
  <2>1. Take(0) BY <1>3 DEF SkipSym
  <2>2. UNCHANGED <<cp, ref, incomment>> BY <2>1, TakeNone
  <2> QED BY <1>1, <1>3, <2>2, Unmoved
<1> QED BY <1>2, <1>3

LEMMA KeywordStep == LineIInv /\ Keyword => LineIInv'
<1> SUFFICES ASSUME LineIInv, Keyword PROVE LineIInv' OBVIOUS
<1>1. /\ pc = "hash" /\ Stopped /\ incomment = "NO" /\ linestate = "HASH" /\ SkipSym
      /\ UNCHANGED <<incomment, wascomment>>
  BY DEF Keyword, Returned, IsDirective
<1>2. /\ LineTypeInv /\ ModeInv /\ PlaceInv /\ PhaseInv /\ DirectiveInv
      /\ ref \in ReaderType /\ Seen \in ReaderType /\ IsRest(cp) /\ retval \in [ type : Types, dodgy : BOOLEAN ]
  BY <1>1, Behaves
<1>3. ~Slash BY <1>1, <1>2 DEF PlaceInv
<1>4. Same(Seen, ref) BY <1>2, <1>3, SeenRef
<1>5. ~ref.odd => cp # <<>> /\ ref.phase = "hash"
  <2>1. cp = <<>> => ref.odd BY <1>1, <1>2 DEF PhaseInv, IsDirective
  <2>2. ~ref.odd => SamePhase BY <1>1, <1>2 DEF PhaseInv, DirtAhead
  <2> QED BY <1>1, <1>4, <2>1, <2>2 DEF SamePhase, Same
<1>6. ASSUME ref.entered # "odd"
      PROVE  /\ ref.odd => cp = <<>>
             /\ wascomment = "NO" <=> ref.entered = "code"
             /\ ~ref.odd => retval.type = "PLAIN" /\ ref.kw = "PLAIN"
  <2>1. ref.odd => cp = <<>> BY <1>2, <1>6 DEF DirectiveInv
  <2>2. wascomment = "NO" <=> ref.entered = "code" BY <1>2, <1>6 DEF DirectiveInv
  <2>3. ~ref.odd => AtBegin BY <1>1, <1>2, <1>6 DEF DirectiveInv
  <2> QED BY <2>1, <2>2, <2>3 DEF AtBegin
<1>7. /\ ref' \in ReaderType /\ IsRest(cp)' /\ ModeInv'
      /\ Char(1) \in Words => /\ cp # <<>> /\ cp' # <<>>
                              /\ ~Slash' /\ Seen' = ref' /\ Same(ref', Visible(Seen, Char(1)))
      /\ Char(1) \notin Words => UNCHANGED <<cp, ref>> /\ Slash' = Slash /\ Seen' = Seen /\ Stopped' = Stopped /\ Char(1)' = Char(1)
  BY <1>1, <1>2, SkipSymReads
<1>8. ~Slash' BY <1>3, <1>7
<1>9. Char(1) \in Words => Char(1) \in Tokens BY DEF Tokens
<1>10. ASSUME Char(1) \in Words
       PROVE  /\ ref'.odd = ref.odd /\ ref'.entered = ref.entered
              /\ ~ref.odd => /\ ref'.phase = IF Char(1) \in Keywords THEN Char(1) ELSE "dirty"
                             /\ ref'.kw = TypeOfWord(Char(1)) /\ ref'.behind = "nothing"
  <2>1. Visible(Seen, Char(1)).odd = Seen.odd /\ Visible(Seen, Char(1)).entered = Seen.entered
    BY <1>2, <1>9, <1>10, VisibleFields
  <2>2. ~ref.odd => Seen.phase = "hash" BY <1>4, <1>5 DEF Same
  <2>3. ~ref.odd => /\ Visible(Seen, Char(1)).phase = IF Char(1) \in Keywords THEN Char(1) ELSE "dirty"
                   /\ Visible(Seen, Char(1)).kw = TypeOfWord(Char(1)) /\ Visible(Seen, Char(1)).behind = "nothing"
    BY <1>2, <1>9, <1>10, <2>2, VisibleFields
  <2> QED BY <1>4, <1>7, <1>10, <2>1, <2>3 DEF Same
<1>11. CASE Char(1) \in Keywords
  <2>1. /\ linestate' = "HASH"
        /\ \/ Char(1) = "ifdef" /\ pc' = "argument" /\ retval' = retval
           \/ /\ Char(1) \in { "else", "endif" } /\ pc' = "ending"
              /\ retval' = [retval EXCEPT !.type = TypeOfWord(Char(1))]
    BY <1>1, <1>11 DEF Keyword
  <2>2. Char(1) \in Words BY <1>11 DEF Words
  <2>3. TypeOfWord(Char(1)) \in Types \ { "PLAIN" } BY <1>11 DEF TypeOfWord, Types, Keywords
  <2>4. /\ retval' \in [ type : Types, dodgy : BOOLEAN ]
        /\ pc' = "ending" => retval'.type = TypeOfWord(Char(1))
    BY <1>2, <2>1, <2>3
  <2>5. LineTypeInv' BY <1>1, <1>2, <1>7, <2>1, <2>4 DEF LineTypeInv, Calls, LineStates
  <2>6. PlaceInv' BY <1>1, <1>8, <2>1 DEF PlaceInv
  <2>7. ~ref'.odd => BehindKeyword' BY <1>10, <1>11, <2>1, <2>2 DEF BehindKeyword
  <2>8. PhaseInv' BY <2>1, <2>7 DEF PhaseInv
  <2>9. ASSUME ref'.entered # "odd", ~ref'.odd
        PROVE  (pc' = "argument" => AtArgument') /\ (pc' = "ending" => AtEnding')
    <3>1. ref'.phase = Char(1) /\ ref'.kw = TypeOfWord(Char(1)) /\ ref'.behind = "nothing" /\ Seen' = ref'
      BY <1>7, <1>10, <1>11, <2>2, <2>9
    <3>2. OnDirective' BY <1>11, <3>1 DEF OnDirective
    <3>3. CASE Char(1) = "ifdef" BY <2>1, <3>1, <3>2, <3>3 DEF AtArgument, TypeOfWord
    <3>4. CASE Char(1) \in { "else", "endif" }
      <4>1. pc' = "ending" /\ retval'.type = TypeOfWord(Char(1)) BY <2>1, <2>4, <3>4
      <4>2. TypeOfWord(Char(1)) \in { "ELSE", "ENDIF" } BY <3>4 DEF TypeOfWord
      <4> QED BY <3>1, <3>2, <4>1, <4>2 DEF AtEnding, IsType
    <3> QED BY <1>11, <3>3, <3>4 DEF Keywords
  <2>10. DirectiveInv'
    <3>1. cp # <<>> /\ ref'.odd = ref.odd /\ ref'.entered = ref.entered BY <1>7, <1>10, <2>2
    <3> QED BY <1>1, <1>6, <2>1, <2>9, <3>1 DEF DirectiveInv
  <2> QED BY <1>7, <2>5, <2>6, <2>8, <2>10 DEF LineIInv
<1>12. CASE Char(1) \notin Keywords
  <2>1. linestate' = "DIRTY" /\ pc' = "ending" /\ retval' = retval BY <1>12 DEF Keyword, Keywords
  <2>2. LineTypeInv' BY <1>1, <1>2, <1>7, <2>1 DEF LineTypeInv, Calls, LineStates
  <2>3. PlaceInv' BY <1>1, <1>8, <2>1 DEF PlaceInv
  <2>4. CASE Char(1) \in Words
    <3>1. TypeOfWord(Char(1)) = "PLAIN" BY <1>12 DEF TypeOfWord, Keywords
    <3>2. ~ref.odd => SamePhase' BY <1>7, <1>10, <1>12, <2>1, <2>4 DEF SamePhase
    <3>3. PhaseInv' BY <1>10, <2>1, <2>4, <3>2 DEF PhaseInv
    <3>4. cp # <<>> /\ ref'.odd = ref.odd /\ ref'.entered = ref.entered BY <1>7, <1>10, <2>4
    <3>5. ref'.entered # "odd" /\ ~ref'.odd => AtEnding' BY <1>6, <1>10, <2>1, <2>4, <3>1, <3>4 DEF AtEnding, IsType
    <3>6. DirectiveInv' BY <1>1, <1>6, <2>1, <3>4, <3>5 DEF DirectiveInv
    <3> QED BY <1>7, <2>2, <2>3, <3>3, <3>6 DEF LineIInv
  <2>5. CASE Char(1) \notin Words
    <3>1. cp' = cp /\ ref' = ref /\ Slash' = Slash /\ Stopped' = Stopped /\ Char(1)' = Char(1) BY <1>7, <2>5
    <3>2. ~ref.odd => DirtAhead' BY <1>1, <1>3, <1>5, <1>12, <2>1, <3>1 DEF DirtAhead
    <3>3. PhaseInv' BY <2>1, <3>1, <3>2 DEF PhaseInv
    <3>4. ref'.entered # "odd" /\ ~ref'.odd => AtEnding' BY <1>6, <2>1, <3>1 DEF AtEnding, IsType
    <3>5. DirectiveInv' BY <1>1, <1>6, <2>1, <3>1, <3>4 DEF DirectiveInv
    <3> QED BY <1>7, <2>2, <2>3, <3>3, <3>5 DEF LineIInv
  <2> QED BY <2>4, <2>5
<1> QED BY <1>11, <1>12

LEMMA ArgumentStep == LineIInv /\ Argument => LineIInv'
<1> SUFFICES ASSUME LineIInv, Argument PROVE LineIInv' OBVIOUS
<1> DEFINE type == IF Char(1) = "A" THEN "TRUE" ELSE "IF"
<1>1. /\ pc = "argument" /\ Stopped /\ pc' = "ending" /\ SkipSym
      /\ retval' = [retval EXCEPT !.type = type]
      /\ UNCHANGED <<incomment, linestate, wascomment>>
  BY DEF Argument, Returned
<1>2. /\ LineTypeInv /\ ModeInv /\ PlaceInv /\ PhaseInv /\ DirectiveInv
      /\ ref \in ReaderType /\ Seen \in ReaderType /\ IsRest(cp) /\ retval \in [ type : Types, dodgy : BOOLEAN ]
  BY <1>1, Behaves
<1>3. retval' \in [ type : Types, dodgy : BOOLEAN ] /\ retval'.type = type BY <1>1, <1>2 DEF Types
<1>4. ~Slash BY <1>1, <1>2 DEF PlaceInv
<1>5. Same(Seen, ref) BY <1>2, <1>4, SeenRef
<1>6. ~ref.odd => (linestate # "HASH" /\ SamePhase) \/ BehindKeyword BY <1>1, <1>2 DEF PhaseInv
<1>7. ASSUME ref.entered # "odd"
      PROVE  /\ ref.odd => cp = <<>>
             /\ wascomment = "NO" <=> ref.entered = "code"
             /\ ~ref.odd => AtArgument
  <2>1. ref.odd => cp = <<>> BY <1>2, <1>7 DEF DirectiveInv
  <2>2. wascomment = "NO" <=> ref.entered = "code" BY <1>2, <1>7 DEF DirectiveInv
  <2>3. ~ref.odd => AtArgument BY <1>1, <1>2, <1>7 DEF DirectiveInv
  <2> QED BY <2>1, <2>2, <2>3
<1>8. /\ ref' \in ReaderType /\ IsRest(cp)' /\ ModeInv'
      /\ Char(1) \in Words => /\ cp # <<>> /\ cp' # <<>>
                              /\ ~Slash' /\ Seen' = ref' /\ Same(ref', Visible(Seen, Char(1)))
      /\ Char(1) \notin Words => UNCHANGED <<cp, ref>> /\ Slash' = Slash /\ Seen' = Seen /\ Stopped' = Stopped /\ Char(1)' = Char(1)
  BY <1>1, <1>2, SkipSymReads
<1>9. ~Slash' BY <1>4, <1>8
<1>10. LineTypeInv' BY <1>1, <1>2, <1>3, <1>8 DEF LineTypeInv, Calls
<1>11. PlaceInv'
  <2>1. linestate = "START" => cp = <<>> /\ incomment = "NO" BY <1>1, <1>2 DEF PlaceInv
  <2>2. incomment = "STARTING" => cp = <<>> BY <1>1, <1>2 DEF PlaceInv
  <2>3. cp = <<>> => cp' = <<>> BY <1>8
  <2> QED BY <1>1, <1>9, <2>1, <2>2, <2>3 DEF PlaceInv
<1>12. CASE Char(1) \in Words
  <2>1. Char(1) \in Tokens \ { "#" } /\ Char(1) \notin { "'", "quote" } BY <1>12 DEF Tokens, Words, Keywords
  <2>2. ref'.odd = ref.odd /\ ref'.entered = ref.entered BY <1>2, <1>5, <1>8, <1>12, <2>1, VisibleFields DEF Same
  <2>3. linestate # "START" BY <1>1, <1>2, <1>8, <1>12 DEF PlaceInv
  <2>4. ASSUME Seen.phase \in Keywords
        PROVE  ref'.phase = Seen.phase /\ ref'.kw = Seen.kw /\ ref'.behind = Behind(Seen, Char(1))
    <3>1. Seen.phase \notin { "start", "hash" } BY <2>4 DEF Keywords
    <3>2. /\ Visible(Seen, Char(1)).phase = Seen.phase /\ Visible(Seen, Char(1)).kw = Seen.kw
          /\ Visible(Seen, Char(1)).behind = Behind(Seen, Char(1))
      BY <1>2, <2>1, <2>4, <3>1, VisibleFields
    <3> QED BY <1>8, <1>12, <3>2 DEF Same
  <2>5. ASSUME ~ref.odd PROVE (linestate' # "HASH" /\ SamePhase') \/ BehindKeyword'
    <3>1. CASE linestate # "HASH" /\ SamePhase
      <4>1. linestate = "DIRTY" BY <1>2, <2>3, <3>1 DEF LineTypeInv, LineStates
      <4>2. Seen.phase \notin { "start", "hash" } BY <3>1, <4>1 DEF SamePhase
      <4>3. Visible(Seen, Char(1)).phase = Seen.phase BY <1>2, <2>1, <4>2, VisibleFields
      <4>4. Seen'.phase = Seen.phase BY <1>8, <1>12, <4>3 DEF Same
      <4> QED BY <1>1, <4>1, <4>2, <4>4 DEF SamePhase
    <3>2. CASE BehindKeyword
      <4>1. Seen.phase \in Keywords BY <1>5, <3>2 DEF BehindKeyword, Same
      <4> QED BY <1>1, <2>4, <3>2, <4>1 DEF BehindKeyword
    <3> QED BY <1>6, <2>5, <3>1, <3>2
  <2>6. PhaseInv' BY <1>1, <2>2, <2>5 DEF PhaseInv
  <2>7. ASSUME ref'.entered # "odd", ~ref'.odd PROVE AtEnding'
    <3>1. AtArgument /\ cp # <<>> BY <1>7, <1>8, <1>12, <2>2, <2>7
    <3>2. Seen.phase = "ifdef" /\ Seen.kw = "IF" /\ Seen.behind = "nothing" BY <1>5, <3>1 DEF AtArgument, Same
    <3>3. "ifdef" \in Keywords BY DEF Keywords
    <3>4. Behind(Seen, Char(1)) = Char(1) BY <1>12, <2>1, <3>2 DEF Behind
    <3>5. ref'.phase = "ifdef" /\ ref'.kw = "IF" /\ ref'.behind = Char(1) /\ Seen' = ref'
      BY <1>8, <1>12, <2>4, <3>2, <3>3, <3>4
    <3>6. OnDirective' BY <3>3, <3>5 DEF OnDirective, TypeOfWord
    <3>7. Char(1) # "nothing" BY <1>12 DEF Words, Keywords
    <3> QED BY <1>3, <3>5, <3>6, <3>7 DEF AtEnding, IsType
  <2>8. DirectiveInv' BY <1>1, <1>7, <1>8, <1>12, <2>2, <2>7 DEF DirectiveInv
  <2> QED BY <1>8, <1>10, <1>11, <2>6, <2>8 DEF LineIInv
<1>13. CASE Char(1) \notin Words
  <2>1. cp' = cp /\ ref' = ref /\ Slash' = Slash /\ Seen' = Seen /\ Stopped' = Stopped /\ Char(1)' = Char(1) BY <1>8, <1>13
  <2>2. SamePhase' = SamePhase /\ BehindKeyword' = BehindKeyword BY <1>1, <2>1 DEF SamePhase, BehindKeyword
  <2>3. PhaseInv' BY <1>1, <1>6, <2>1, <2>2 DEF PhaseInv
  <2>4. ASSUME AtArgument PROVE AtEnding'
    <3>1. OnDirective' BY <2>1, <2>4 DEF AtArgument, OnDirective
    <3>2. retval'.type = "IF" BY <1>3, <1>13 DEF Words
    <3> QED BY <1>1, <1>13, <2>1, <2>4, <3>1, <3>2 DEF AtArgument, AtEnding, IsType
  <2>5. DirectiveInv' BY <1>1, <1>7, <2>1, <2>4 DEF DirectiveInv
  <2> QED BY <1>8, <1>10, <1>11, <2>3, <2>5 DEF LineIInv
<1> QED BY <1>12, <1>13

LEMMA EndingStep == LineIInv /\ Ending => LineIInv'
<1> SUFFICES ASSUME LineIInv, Ending PROVE LineIInv' OBVIOUS
<1> DEFINE junk  == Char(1) # "end"
           type  == IF junk /\ retval.type = "TRUE" THEN "IF" ELSE retval.type
           dodgy == type # "PLAIN" /\ (wascomment # "NO" \/ incomment # "NO")
<1>1. /\ pc = "ending" /\ Stopped
      /\ retval' = [ type |-> type, dodgy |-> dodgy ]
      /\ linestate' = IF junk \/ (dodgy /\ incomment # "NO") THEN "DIRTY" ELSE linestate
      /\ pc' = IF linestate' = "HASH" THEN "abort" ELSE "tail"
      /\ UNCHANGED <<incomment, cp, wascomment, ref>>
  BY DEF Ending, Returned
<1>2. /\ LineTypeInv /\ ModeInv /\ PlaceInv /\ PhaseInv /\ DirectiveInv
      /\ ref \in ReaderType /\ Seen \in ReaderType /\ IsRest(cp) /\ retval \in [ type : Types, dodgy : BOOLEAN ]
      /\ linestate \in LineStates
  BY <1>1, Behaves
<1>3. junk <=> cp # <<>> BY <1>2, RestFacts
<1>4. type \in Types /\ dodgy \in BOOLEAN BY <1>2 DEF Types
<1>5. Slash' = Slash /\ Seen' = Seen /\ Stopped' = Stopped /\ Char(1)' = Char(1) /\ ModeInv' BY <1>1, <1>2, Unmoved
<1>6. LineTypeInv' BY <1>1, <1>2, <1>4 DEF LineTypeInv, Calls, LineStates
<1> SUFFICES ASSUME pc' # "abort" PROVE PlaceInv' /\ PhaseInv' /\ DirectiveInv'
  BY <1>5, <1>6 DEF LineIInv
<1>7. pc' = "tail" /\ linestate' # "HASH" BY <1>1
<1>8. ~Slash BY <1>1, <1>2 DEF PlaceInv
<1>9. Same(Seen, ref) BY <1>2, <1>8, SeenRef
<1>10. linestate = "START" => cp = <<>> /\ incomment = "NO" BY <1>1, <1>2 DEF PlaceInv
<1>11. linestate' = linestate \/ (linestate' = "DIRTY" /\ linestate # "START") BY <1>1, <1>3, <1>10
<1>12. incomment = "STARTING" => cp = <<>> BY <1>1, <1>2 DEF PlaceInv
<1>13. PlaceInv' BY <1>1, <1>5, <1>7, <1>8, <1>10, <1>11, <1>12 DEF PlaceInv
<1>14. ~ref.odd => (linestate # "HASH" /\ SamePhase) \/ BehindKeyword \/ DirtAhead BY <1>1, <1>2 DEF PhaseInv
<1>15. ASSUME ~ref.odd PROVE SamePhase' \/ DirtAhead'
  <2>1. CASE linestate # "HASH" /\ SamePhase
    <3>1. linestate' = linestate BY <1>2, <1>11, <2>1 DEF LineStates
    <3> QED BY <1>5, <2>1, <3>1 DEF SamePhase
  <2>2. CASE BehindKeyword
    <3>1. linestate' = "DIRTY" BY <1>7, <1>11, <2>2 DEF BehindKeyword
    <3>2. Seen.phase \notin { "start", "hash" } BY <1>9, <2>2 DEF BehindKeyword, Same, Keywords
    <3> QED BY <1>5, <3>1, <3>2 DEF SamePhase
  <2>3. CASE DirtAhead
    <3>1. linestate' = "DIRTY" BY <1>11, <2>3 DEF DirtAhead
    <3> QED BY <1>1, <1>5, <2>3, <3>1 DEF DirtAhead
  <2> QED BY <1>14, <1>15, <2>1, <2>2, <2>3
<1>16. PhaseInv' BY <1>1, <1>7, <1>15 DEF PhaseInv
<1>17. ASSUME ref.entered # "odd"
       PROVE  /\ ref.odd => cp = <<>>
              /\ wascomment = "NO" <=> ref.entered = "code"
              /\ ~ref.odd => AtEnding
  <2>1. ref.odd => cp = <<>> BY <1>2, <1>17 DEF DirectiveInv
  <2>2. wascomment = "NO" <=> ref.entered = "code" BY <1>2, <1>17 DEF DirectiveInv
  <2>3. ~ref.odd => AtEnding BY <1>1, <1>2, <1>17 DEF DirectiveInv
  <2> QED BY <2>1, <2>2, <2>3
<1>18. ASSUME ref.entered # "odd", ~ref.odd PROVE AtTail'
  <2>1. AtEnding BY <1>17, <1>18
  <2>2. retval'.type = type /\ retval'.dodgy = dodgy BY <1>1
  <2>3. ref'.kw = IF retval'.type = "TRUE" THEN "IF" ELSE retval'.type BY <1>1, <2>1, <2>2 DEF AtEnding, IsType
  <2>4. ref'.kw # "PLAIN" => OnDirective' BY <1>1, <1>5, <2>1 DEF AtEnding, OnDirective
  <2>5. retval'.type = "TRUE" => cp' = <<>> /\ ref'.behind = "A" BY <1>1, <1>3, <2>1, <2>2 DEF AtEnding
  <2>6. ASSUME retval'.type # "PLAIN", ~retval'.dodgy
        PROVE  ref'.entered = "code" /\ (Junk' \/ (cp' = <<>> /\ incomment' = "NO"))
    <3>1. wascomment = "NO" /\ incomment = "NO" BY <2>2, <2>6
    <3>2. ref.entered = "code" BY <1>17, <1>18, <3>1
    <3>3. CASE cp = <<>> BY <1>1, <3>1, <3>2, <3>3
    <3>4. CASE cp # <<>>
      <4>1. ref.kw # "PLAIN" BY <2>1, <2>2, <2>6 DEF AtEnding, IsType
      <4>2. Seen.phase \in Keywords /\ ref.kw = TypeOfWord(Seen.phase) BY <2>1, <3>4, <4>1 DEF AtEnding, OnDirective
      <4>3. Char(1) \notin { "'", "quote" } BY <1>1, <1>2, <3>4, StoppedAt
      <4>4. Behind(Seen, Char(1)) = "junk"
        <5>1. CASE Seen.phase # "ifdef" \/ Seen.behind # "nothing" BY <4>3, <5>1 DEF Behind
        <5>2. CASE Seen.phase = "ifdef" /\ Seen.behind = "nothing"
          <6>1. ref.kw = "IF" /\ ref.behind = "nothing" BY <1>9, <4>2, <5>2 DEF TypeOfWord, Same
          <6>2. retval.type = "IF" BY <2>1, <6>1 DEF AtEnding, IsType
          <6>3. Char(1) \notin Words BY <2>1, <3>4, <6>1, <6>2 DEF AtEnding
          <6> QED BY <4>3, <6>3 DEF Behind
        <5> QED BY <5>1, <5>2
      <4>5. Junk' BY <1>1, <1>5, <3>4, <4>4 DEF Junk
      <4> QED BY <1>1, <3>2, <4>5
    <3> QED BY <3>3, <3>4
  <2> QED BY <2>3, <2>4, <2>5, <2>6 DEF AtTail, IsType
<1>19. DirectiveInv' BY <1>1, <1>7, <1>17, <1>18 DEF DirectiveInv
<1> QED BY <1>13, <1>16, <1>19

LEMMA SkipRestStep == LineIInv /\ SkipRest => LineIInv'
<1> SUFFICES ASSUME LineIInv, SkipRest PROVE LineIInv' OBVIOUS
<1>1. /\ pc = "tail" /\ Stopped /\ linestate = "DIRTY" /\ cp # <<>> /\ Take(1)
      /\ UNCHANGED <<incomment, linestate, pc, wascomment, retval>>
  BY DEF SkipRest, Returned, Dirty
<1>2. /\ LineTypeInv /\ ModeInv /\ PlaceInv /\ PhaseInv /\ DirectiveInv
      /\ ref \in ReaderType /\ Seen \in ReaderType /\ IsRest(cp) /\ incomment \in Comments
  BY <1>1, Behaves
<1>3. /\ incomment = "NO" /\ Char(1) \in Tokens \ { "nl", "cont", "'", "quote", "sp" }
      /\ Char(2) \in Tokens /\ (Char(1) = "/" => Char(2) \notin { "cont", "*", "/" })
  BY <1>1, <1>2, StoppedAt
<1>4. /\ ref' \in ReaderType /\ IsRest(cp)' /\ ModeInv' /\ Same(Seen', Visible(Seen, Char(1)))
      /\ Slash' => Same(ref', Seen)
      /\ ~Slash' => Same(ref', Visible(Seen, Char(1)))
  <2>1. CASE Char(1) # "/" BY <1>1, <1>2, <2>1, CodeRead DEF Same
  <2>2. CASE Char(1) = "/"
    <3>1. ref' = Read(Seen, "/") /\ ref' \in ReaderType /\ IsRest(cp)' /\ Char(1)' = Char(2) BY <1>1, <1>2, <2>2, TakeOne
    <3>2. Seen.mode = "code" /\ Seen.valid BY <1>2, <1>3, SeenMode
    <3>3. ref' = InCode(Seen, "/") BY <3>1, <3>2 DEF Read
    <3>4. "/" \in Tokens BY DEF Tokens
    <3>5. ref'.mode = "slash" /\ Same(ref', Seen) BY <1>2, <3>3, <3>4, InCodeFields
    <3>6. Slash' /\ ~Star' BY <1>1, <1>3, <3>5 DEF Slash, Star
    <3>7. Seen' = After(ref', "NO") BY <1>1, <1>3 DEF Seen
    <3>8. "NO" \in Comments BY DEF Comments
    <3>9. Same(Seen', Visible(ref', "/")) /\ Seen'.mode = "code" BY <3>1, <3>5, <3>7, <3>8, AfterFields
    <3>10. Same(Visible(ref', "/"), Visible(Seen, "/")) BY <1>2, <3>1, <3>4, <3>5, SameVisible
    <3>11. Same(Seen', Visible(Seen, Char(1))) BY <2>2, <3>9, <3>10 DEF Same
    <3>12. Char(1)' \notin { "end", "cont", "*", "/" }
      BY <1>3, <2>2, <3>1 DEF Tokens, Words, Keywords, Ends
    <3>13. ref'.valid BY <3>2, <3>5 DEF Same
    <3>14. ModeInv' BY <1>1, <1>3, <3>6, <3>9, <3>12, <3>13 DEF ModeInv, SameComment
    <3> QED BY <3>1, <3>5, <3>6, <3>11, <3>14
  <2> QED BY <2>1, <2>2
<1>5. Visible(Seen, Char(1)).odd = Seen.odd /\ Visible(Seen, Char(1)).entered = Seen.entered BY <1>2, <1>3, VisibleFields
<1>6. Seen.odd = ref.odd /\ Seen.entered = ref.entered /\ (~Slash => Same(Seen, ref)) BY <1>2, SeenRef
<1>7. ref'.odd = ref.odd /\ ref'.entered = ref.entered BY <1>4, <1>5, <1>6 DEF Same
<1>8. LineTypeInv' BY <1>1, <1>2, <1>4 DEF LineTypeInv
<1>9. PlaceInv' BY <1>1, <1>3 DEF PlaceInv
<1>10. ~ref.odd => SamePhase \/ DirtAhead BY <1>1, <1>2 DEF PhaseInv
<1>11. ASSUME ~ref.odd PROVE Visible(Seen, Char(1)).phase \notin { "start", "hash" }
  <2>1. CASE SamePhase
    <3>1. Seen.phase \notin { "start", "hash" } BY <1>1, <2>1 DEF SamePhase
    <3> QED BY <1>2, <1>3, <3>1, VisibleFields
  <2>2. CASE DirtAhead
    <3>1. (Seen.phase = "start" /\ Char(1) # "#") \/ (Seen.phase = "hash" /\ Char(1) \notin Keywords)
      BY <1>6, <2>2 DEF DirtAhead, Same
    <3> QED BY <1>2, <1>3, <3>1, VisibleFields
  <2> QED BY <1>10, <1>11, <2>1, <2>2
<1>12. ~ref.odd => SamePhase' BY <1>1, <1>4, <1>11 DEF SamePhase, Same
<1>13. PhaseInv' BY <1>1, <1>7, <1>12 DEF PhaseInv
<1>14. ASSUME ref.entered # "odd" PROVE ~ref.odd /\ AtTail /\ (wascomment = "NO" <=> ref.entered = "code")
  <2>1. ref.odd => cp = <<>> BY <1>2, <1>14 DEF DirectiveInv
  <2>2. wascomment = "NO" <=> ref.entered = "code" BY <1>2, <1>14 DEF DirectiveInv
  <2>3. ~ref.odd => AtTail BY <1>1, <1>2, <1>14 DEF DirectiveInv
  <2> QED BY <1>1, <2>1, <2>2, <2>3
<1>15. ASSUME ref.entered # "odd" PROVE AtTail'
  <2>1. ~ref.odd /\ AtTail /\ retval.type # "TRUE" BY <1>1, <1>14, <1>15 DEF AtTail
  <2>2. Seen.kw = ref.kw \/ Seen.kw = "PLAIN"
    <3>1. CASE ~Slash BY <1>6, <3>1 DEF Same
    <3>2. CASE Slash
      <4>1. Same(Seen, Visible(ref, "/")) BY <1>2, <3>2, AfterFields DEF Seen, Slash
      <4> QED BY <1>2, <4>1, QuotedFields DEF Same
    <3> QED BY <3>1, <3>2
  <2>3. CASE ref.kw = "PLAIN"
    <3>1. Seen.kw = "PLAIN" /\ retval.type = "PLAIN" BY <2>1, <2>2, <2>3 DEF AtTail, IsType
    <3>2. Visible(Seen, Char(1)).kw = "PLAIN"
      <4>1. CASE Seen.phase # "hash" BY <1>2, <1>3, <3>1, <4>1, VisibleFields
      <4>2. CASE Seen.phase = "hash"
        <5>1. ~SamePhase BY <1>1, <4>2 DEF SamePhase
        <5>2. DirtAhead BY <1>10, <2>1, <5>1
        <5>3. Char(1) \notin Keywords BY <1>6, <4>2, <5>2 DEF DirtAhead, Same
        <5>4. TypeOfWord(Char(1)) = "PLAIN" BY <5>3 DEF TypeOfWord, Keywords
        <5> QED BY <1>2, <1>3, <4>2, <5>4, VisibleFields
      <4> QED BY <4>1, <4>2
    <3>3. ref'.kw = "PLAIN" BY <1>4, <3>1, <3>2 DEF Same
    <3> QED BY <1>1, <3>1, <3>3 DEF AtTail, IsType
  <2>4. CASE ref.kw # "PLAIN"
    <3>1. Seen.phase \in Keywords /\ ref.kw = TypeOfWord(Seen.phase) BY <1>1, <2>1, <2>4 DEF AtTail, OnDirective
    <3>2. Seen.phase \notin { "start", "hash" } BY <3>1 DEF Keywords
    <3>3. Seen.kw = ref.kw
      <4>1. CASE ~Slash BY <1>6, <4>1 DEF Same
      <4>2. CASE Slash
        <5>1. Same(Seen, Visible(ref, "/")) BY <1>2, <4>2, AfterFields DEF Seen, Slash
        <5>2. ref.phase # "hash"
          <6>1. ref.phase = "hash" => Visible(ref, "/").phase \notin Keywords BY <1>2, QuotedFields DEF Keywords
          <6> QED BY <3>1, <5>1, <6>1 DEF Same
        <5>3. Visible(ref, "/").kw = ref.kw BY <1>2, <5>2, QuotedFields
        <5> QED BY <5>1, <5>3 DEF Same
      <4> QED BY <4>1, <4>2
    <3>4. /\ Visible(Seen, Char(1)).phase = Seen.phase /\ Visible(Seen, Char(1)).kw = Seen.kw
          /\ Visible(Seen, Char(1)).behind = Behind(Seen, Char(1))
      BY <1>2, <1>3, <3>1, <3>2, VisibleFields
    <3>5. ref'.kw = ref.kw /\ Seen'.phase = Seen.phase /\ Seen'.behind = Behind(Seen, Char(1))
      BY <1>4, <3>3, <3>4 DEF Same
    <3>6. OnDirective' BY <3>1, <3>5 DEF OnDirective
    <3>7. Seen.behind = "junk" => Behind(Seen, Char(1)) = "junk" BY DEF Behind
    <3>8. Junk => Junk' BY <3>5, <3>7 DEF Junk
    <3>9. retval.type # "PLAIN" /\ ~retval.dodgy => ref.entered = "code" /\ Junk BY <1>1, <2>1 DEF AtTail
    <3> QED BY <1>1, <1>7, <2>1, <3>5, <3>6, <3>8, <3>9 DEF AtTail, IsType
  <2> QED BY <2>3, <2>4
<1>16. DirectiveInv' BY <1>1, <1>7, <1>14, <1>15 DEF DirectiveInv
<1> QED BY <1>4, <1>8, <1>9, <1>13, <1>16 DEF LineIInv

LEMMA ReturnStep == LineIInv /\ Return => LineIInv'
<1> SUFFICES ASSUME LineIInv, Return PROVE LineIInv' OBVIOUS
<1>1. /\ pc = "tail" /\ Stopped /\ ~Dirty /\ pc' = "fgets" /\ cp' = <<>>
      /\ UNCHANGED <<incomment, linestate, wascomment, retval, ref>>
  BY DEF Return, Returned
<1>2. /\ LineTypeInv /\ ModeInv /\ PlaceInv /\ PhaseInv /\ DirectiveInv
      /\ linestate \in LineStates
  BY <1>1, Behaves
<1>3. cp = <<>> BY <1>1, <1>2 DEF Dirty, PlaceInv, LineStates
<1>4. ~Slash /\ ~Star /\ Seen = ref BY <1>2, <1>3, NothingPending
<1>5. Slash' = Slash /\ Seen' = Seen /\ ModeInv' BY <1>1, <1>2, <1>3, Unmoved
<1>6. LineTypeInv' BY <1>1, <1>2, <1>3 DEF LineTypeInv
<1>7. PlaceInv' BY <1>1, <1>4, <1>5 DEF PlaceInv
<1>8. ~ref.odd => SamePhase BY <1>1, <1>2, <1>3 DEF PhaseInv, DirtAhead
<1>9. ~ref.odd => SamePhase' BY <1>1, <1>5, <1>8 DEF SamePhase
<1>10. PhaseInv' BY <1>1, <1>9 DEF PhaseInv
<1>11. ASSUME ref.entered # "odd" PROVE (wascomment = "NO" <=> ref.entered = "code") /\ (~ref.odd => AtTail)
  <2>1. wascomment = "NO" <=> ref.entered = "code" BY <1>2, <1>11 DEF DirectiveInv
  <2>2. ~ref.odd => AtTail BY <1>1, <1>2, <1>11 DEF DirectiveInv
  <2> QED BY <2>1, <2>2
<1>12. incomment = "NO" => ref.mode = "code" BY <1>2, <1>4 DEF ModeInv, SameComment
<1>13. ASSUME AtTail PROVE DirectivesFound'
  <2>1. Junk => ref.behind = "junk" BY <1>3, <1>4 DEF Junk
  <2>2. retval.type # "PLAIN" /\ ~retval.dodgy => ref.entered = "code" /\ (ref.behind = "junk" \/ ref.mode = "code")
    BY <1>12, <1>13, <2>1 DEF AtTail
  <2>3. retval.type = "TRUE" /\ ~retval.dodgy => ref.behind = "A" BY <1>13 DEF AtTail
  <2>4. IsType(ref.kw) BY <1>13 DEF AtTail
  <2>5. ref' = ref /\ retval' = retval BY <1>1
  <2> QED BY <2>2, <2>3, <2>4, <2>5 DEF DirectivesFound, IsType
<1>14. DirectiveInv'
  <2>1. ref.entered # "odd" /\ ~ref.odd => DirectivesFound' BY <1>11, <1>13
  <2> QED BY <1>1, <1>11, <2>1 DEF DirectiveInv
<1> QED BY <1>5, <1>6, <1>7, <1>10, <1>14 DEF LineIInv

LEMMA SkipCommentStep == LineIInv /\ SkipComment => LineIInv'
<1> SUFFICES ASSUME LineIInv, SkipComment PROVE LineIInv' OBVIOUS
<1>1. pc \notin { "error", "abort" } BY DEF SkipComment, Calls
<1>2. LineTypeInv /\ ModeInv /\ PlaceInv /\ PhaseInv /\ DirectiveInv BY <1>1, Behaves
<1>3. Turn BY <1>2, SkipCommentTurn
<1> QED BY <1>2, <1>3, SkipCommentPlace, SkipCommentPhase, SkipCommentDirective DEF LineIInv, Turn

LEMMA ErrorStep == LineIInv /\ Error => LineIInv'
BY DEF LineIInv, Error, LineTypeInv

LEMMA LineUnchanged == LineIInv /\ UNCHANGED lvars => LineIInv'
<1> SUFFICES ASSUME LineIInv, UNCHANGED lvars PROVE LineIInv' OBVIOUS
<1>1. UNCHANGED <<incomment, linestate, cp, pc, wascomment, retval, ref>> BY DEF lvars
<1>2. /\ Slash' = Slash /\ Seen' = Seen /\ Stopped' = Stopped /\ Char(1)' = Char(1) /\ ModeInv' = ModeInv
  BY <1>1, Unmoved
<1>3. LineTypeInv' = LineTypeInv BY <1>1 DEF LineTypeInv
<1>4. PlaceInv' = PlaceInv BY <1>1, <1>2 DEF PlaceInv
<1>5. SamePhase' = SamePhase /\ DirtAhead' = DirtAhead /\ BehindKeyword' = BehindKeyword
  BY <1>1, <1>2 DEF SamePhase, DirtAhead, BehindKeyword
<1>6. PhaseInv' = PhaseInv BY <1>1, <1>5 DEF PhaseInv, IsDirective
<1>7. Junk' = Junk /\ OnDirective' = OnDirective BY <1>1, <1>2 DEF Junk, OnDirective
<1>8. /\ AtBegin' = AtBegin /\ AtArgument' = AtArgument /\ AtEnding' = AtEnding /\ AtTail' = AtTail
      /\ DirectivesFound' = DirectivesFound
  BY <1>1, <1>2, <1>7 DEF AtBegin, AtArgument, AtEnding, AtTail, IsType, DirectivesFound
<1>9. DirectiveInv' = DirectiveInv BY <1>1, <1>8 DEF DirectiveInv
<1> QED BY <1>1, <1>2, <1>3, <1>4, <1>6, <1>9 DEF LineIInv

LEMMA LineStepHolds == LineIInv /\ [Next]_lvars => LineIInv'
<1> SUFFICES ASSUME LineIInv, [Next]_lvars PROVE LineIInv' OBVIOUS
<1>1. CASE getline34
  BY <1>1, FgetsStep, BeginStep, NoDirectiveStep, KeywordStep, ArgumentStep, EndingStep, SkipRestStep, ReturnStep, ErrorStep
     DEF getline34, Eioccc, Unterminated
<1>2. CASE SkipComment BY <1>2, SkipCommentStep
<1>3. CASE UNCHANGED lvars BY <1>3, LineUnchanged
<1> QED BY <1>1, <1>2, <1>3 DEF Next, Exited

LEMMA LineAlways == Spec => []LineIInv
<1>1. Init => LineIInv BY LineInitHolds
<1>2. LineIInv /\ [Next]_lvars => LineIInv' BY LineStepHolds
<1> QED BY <1>1, <1>2, PTL DEF Spec

(* Whatever the lines, the parser of comments is where a reader is that     *)
(* spliced them and removed their comments.                                 *)
THEOREM WhereTheReaderIsHolds == Spec => []WhereTheReaderIs
<1>1. LineIInv => WhereTheReaderIs
  <2> SUFFICES ASSUME LineIInv, pc = "fgets"
               PROVE  /\ ref.valid /\ << incomment, ref.mode >> \in SameComment
                      /\ ~ref.odd => linestate = IF ref.phase = "start" THEN "START"
                                                 ELSE IF ref.phase = "hash" THEN "HASH" ELSE "DIRTY"
    BY DEF WhereTheReaderIs, SameComment
  <2>1. LineTypeInv /\ ModeInv /\ PlaceInv /\ PhaseInv BY Behaves
  <2>2. Seen = ref BY <2>1, NothingPending DEF PlaceInv
  <2>3. ref.valid /\ <<incomment, ref.mode>> \in SameComment BY <2>1, <2>2 DEF ModeInv
  <2>4. ~ref.odd => SamePhase BY <2>1 DEF PhaseInv
  <2> QED BY <2>2, <2>3, <2>4 DEF SamePhase
<1> QED BY <1>1, LineAlways, PTL

(* Whatever the lines, those are taken for directives that are, and as      *)
(* certain as they are.                                                     *)
THEOREM DirectivesFoundHolds == Spec => []DirectivesFound
<1>1. LineIInv => DirectivesFound
  <2> SUFFICES ASSUME LineIInv, pc = "fgets", ref.entered # "odd", ~ref.odd PROVE DirectivesFound
    BY DEF DirectivesFound
  <2>1. DirectiveInv BY Behaves
  <2> QED BY <2>1 DEF DirectiveInv
<1> QED BY <1>1, LineAlways, PTL

-----------------------------------------------------------------------------
(* raw2flash and flash2raw.                                                 *)

Beginning == { "header", "jffs" }

PageSize == EccBytes * BlocksPerPage

-----------------------------------------------------------------------------
(* The inductive invariant, in parts.                                       *)

(* Nothing is converted before the partition table was read.                *)
StartInv ==
  /\ size \in Nat
  /\ step \in Beginning \cup { "fill", "put", "back" }
  /\ step \in Beginning =>
       /\ buffer = <<>> /\ partition = 0 /\ count = 0 /\ eccbyte = 0 /\ formatted = TRUE
       /\ flash = <<>> /\ raw = <<>> /\ pages = 0

(* If there is enough to read, jffs gets consecutive bytes, from wherever   *)
(* the read of the header stopped.                                          *)
TableInv ==
  size >= Header + PartitionStart =>
    /\ step = "header" => pos = 0 /\ jffs = <<>>
    /\ step # "header" =>
         \E h \in 0 .. Header :
           /\ jffs \in Seq(Nat) /\ Len(jffs) <= PartitionStart
           /\ \A k \in 1 .. Len(jffs) : jffs[k] = h + k
           /\ IF step = "jffs" THEN pos = h + Len(jffs) ELSE Len(jffs) = PartitionStart

(* What FlashWhole takes for granted, from the time it is settled.          *)
Good ==
  /\ step \notin Beginning
  /\ size >= Header + PartitionStart
  /\ jffs \in Seq(Nat) /\ Len(jffs) = PartitionStart
  /\ \A k \in 1 .. PartitionStart : jffs[k] = Header + k

(* The buffer has the next bytes of the image, and the pipe goes on where   *)
(* they end.                                                                *)
Ahead == Header + count - PartitionStart + Len(buffer)

WholeBlocks == \E c \in Nat : count = c * EccBytes

Holds(data, from) == \A j \in 1 .. Len(data) : data[j] = Image(from + j)

BufferInv ==
  /\ count \in Nat /\ WholeBlocks
  /\ partition \in 0 .. 2
  /\ buffer \in Seq(Int) /\ Len(buffer) <= MaxRead
  /\ Holds(buffer, count)
  /\ step = "put" => Len(buffer) >= EccBytes
  /\ count < 2 * PartitionStart =>
       /\ pos = Header + PartitionStart
       /\ partition < 2
       /\ step = "fill" => buffer = <<>>
       /\ step = "put" => Len(buffer) = EccBytes
  /\ count >= 2 * PartitionStart => pos = IF Ahead < size THEN Ahead ELSE size
  /\ partition = 2 => size <= Header + count - PartitionStart

(* The finished pages have the bytes up to count, with those of a page that *)
(* is begun; a page that is not marked has no byte of the image.            *)
Finished == IF eccbyte = 0 THEN Len(flash) ELSE Len(flash) - 1

PagesInv ==
  /\ flash \in Seq([ data : Seq(Int), formatted : BOOLEAN ])
  /\ eccbyte \in 0 .. BlocksPerPage - 1
  /\ Finished \in Nat
  /\ count = Finished * PageSize + eccbyte * EccBytes
  /\ \A p \in 1 .. Finished :
       /\ Len(flash[p].data) = PageSize
       /\ Holds(flash[p].data, (p - 1) * PageSize)
       /\ ~flash[p].formatted => \A j \in 1 .. PageSize : Image((p - 1) * PageSize + j) = Erased
  /\ eccbyte # 0 =>
       /\ Len(flash[Len(flash)].data) = eccbyte * EccBytes
       /\ Holds(flash[Len(flash)].data, Finished * PageSize)
  /\ formatted \in BOOLEAN
  /\ ~formatted => \A k \in Nat : k > Finished * PageSize => Image(k) = Erased

(* flash2raw reads the pages of a whole flash one after the other.          *)
BackInv ==
  /\ step # "back" => raw = <<>> /\ pages = 0
  /\ step = "back" => count = RomSize
  /\ pages \in Nat /\ raw \in Seq(Int) /\ Len(raw) = pages * PageSize
  /\ Holds(raw, 0)

FlashIInv == StartInv /\ TableInv /\ (Good => BufferInv /\ PagesInv /\ BackInv)

-----------------------------------------------------------------------------
(* The arithmetic of blocks and pages.                                      *)

(* The constants are numbers, and the partition ends with a block.          *)
LEMMA Numbers ==
  /\ Header \in Nat /\ PartitionStart \in Nat /\ EccBytes \in Nat \ {0}
  /\ BlocksPerPage \in Nat \ {0} /\ RomSize \in Nat /\ MaxRead \in Nat
  /\ EccBytes <= MaxRead /\ PartitionStart >= 1 /\ PageSize \in Nat \ {0}
  /\ \E n \in Nat : PartitionStart = n * EccBytes
  /\ \E n \in Nat : RomSize = n * PageSize
<1>1. PageSize \in Nat \ {0}
  BY FlashAssumption DEF PageSize
<1>2. PICK n \in 1 .. PartitionStart : PartitionStart = n * EccBytes
  BY FlashAssumption
<1>3. PICK m \in 1 .. RomSize : RomSize = m * PageSize
  BY FlashAssumption DEF PageSize
<1> QED
  BY <1>1, <1>2, <1>3, FlashAssumption

LEMMA PlainNumbers ==
  /\ Header \in Nat /\ PartitionStart \in Nat /\ EccBytes \in Nat /\ EccBytes # 0
  /\ RomSize \in Nat /\ MaxRead \in Nat /\ EccBytes <= MaxRead /\ PartitionStart >= 1
BY Numbers

(* A multiple that is smaller than another is smaller by one unit at least. *)
LEMMA NextMultiple ==
  ASSUME NEW u \in Nat, NEW a \in Nat, NEW b \in Nat, a * u < b * u
  PROVE  a + 1 <= b /\ (a + 1) * u = a * u + u /\ a * u + u <= b * u
<1>1. (a + 1) * u = a * u + u
  OBVIOUS
<1>2. a < b
  <2>1. ASSUME b <= a PROVE FALSE
    <3>1. PICK d \in Nat : a = b + d
      <4>1. a - b \in Nat /\ a = b + (a - b)
        BY <2>1
      <4> QED BY <4>1
    <3>2. a * u = b * u + d * u
      BY <3>1
    <3>3. d * u >= 0
      OBVIOUS
    <3>4. a * u \in Nat /\ b * u \in Nat /\ d * u \in Nat
      OBVIOUS
    <3> QED BY <3>2, <3>3, <3>4
  <2> QED BY <2>1
<1>3. PICK e \in Nat : b = (a + 1) + e
  <2>1. b - (a + 1) \in Nat /\ b = (a + 1) + (b - (a + 1))
    BY <1>2
  <2> QED BY <2>1
<1>4. b * u = (a + 1) * u + e * u
  BY <1>3
<1>5. (a + 1) * u \in Nat /\ b * u \in Nat /\ e * u \in Nat /\ a * u \in Nat
  OBVIOUS
<1> QED
  BY <1>1, <1>2, <1>4, <1>5

(* The blocks of a page that is begun are fewer than a page.                *)
LEMMA PartOfAPage ==
  ASSUME NEW e \in 0 .. BlocksPerPage - 1
  PROVE  /\ e * EccBytes \in Nat /\ e * EccBytes + EccBytes <= PageSize
         /\ (e + 1) * EccBytes = e * EccBytes + EccBytes
         /\ e + 1 = BlocksPerPage => e * EccBytes + EccBytes = PageSize
<1> USE Numbers
<1>1. PageSize = BlocksPerPage * EccBytes
  BY DEF PageSize
<1>2. (e + 1) * EccBytes = e * EccBytes + EccBytes
  OBVIOUS
<1>3. PICK d \in Nat : BlocksPerPage = (e + 1) + d
  <2>1. BlocksPerPage - (e + 1) \in Nat /\ BlocksPerPage = (e + 1) + (BlocksPerPage - (e + 1))
    OBVIOUS
  <2> QED BY <2>1
<1>4. BlocksPerPage * EccBytes = (e + 1) * EccBytes + d * EccBytes
  BY <1>3
<1>5. d * EccBytes \in Nat /\ e * EccBytes \in Nat /\ (e + 1) * EccBytes \in Nat
  OBVIOUS
<1> QED
  BY <1>1, <1>2, <1>4, <1>5

(* When all is written there is no begun page.                              *)
LEMMA WholePages ==
  ASSUME PagesInv, count = RomSize
  PROVE  eccbyte = 0 /\ Finished = Len(flash) /\ Finished * PageSize = RomSize
<1> USE Numbers
<1>1. PICK n \in Nat : RomSize = n * PageSize
  OBVIOUS
<1> DEFINE part == eccbyte * EccBytes
<1>2. /\ Finished \in Nat /\ eccbyte \in 0 .. BlocksPerPage - 1
      /\ Finished * PageSize + part = n * PageSize
  BY <1>1 DEF PagesInv
<1>3. part \in Nat /\ part < PageSize /\ (part = 0 => eccbyte = 0)
  <2>1. part \in Nat /\ part + EccBytes <= PageSize
    BY <1>2, PartOfAPage
  <2>2. part = 0 => eccbyte = 0
    BY <1>2
  <2> QED BY <2>1, <2>2
<1>4. Finished * PageSize \in Nat /\ n * PageSize \in Nat
  BY <1>2
<1> HIDE DEF part
<1>5. CASE part = 0
  BY <1>1, <1>2, <1>3, <1>4, <1>5 DEF Finished
<1>6. CASE part # 0
  <2>1. Finished * PageSize < n * PageSize
    BY <1>2, <1>3, <1>4, <1>6
  <2>2. Finished * PageSize + PageSize <= n * PageSize
    BY <1>2, <2>1, NextMultiple
  <2> QED BY <1>2, <1>3, <1>4, <2>2
<1> QED BY <1>5, <1>6

-----------------------------------------------------------------------------
(* Every image byte has a value, and keeps it.                              *)
LEMMA ImageByte ==
  ASSUME StartInv, NEW k \in Int
  PROVE  Image(k) \in Int
BY Numbers DEF StartInv, Image, Erased

LEMMA ReadBytes ==
  ASSUME size \in Nat, pos \in Nat, pos <= size, NEW n \in Nat, NEW bytes \in CouldRead(n)
  PROVE  /\ bytes \in Seq(Nat) /\ Len(bytes) <= n /\ pos + Len(bytes) <= size
         /\ \A k \in 1 .. Len(bytes) : bytes[k] = pos + k
         /\ bytes = <<>> => pos = size \/ n = 0
<1> DEFINE most == IF size - pos < n THEN size - pos ELSE n
<1>1. most \in Nat /\ most <= n /\ pos + most <= size
  OBVIOUS
<1>2. PICK m \in (IF most = 0 THEN {0} ELSE 1 .. most) : bytes = [k \in 1 .. m |-> pos + k]
  BY DEF CouldRead
<1>3. m \in Nat /\ m <= most /\ (m = 0 => most = 0)
  BY <1>1, <1>2
<1>4. bytes \in Seq(Nat) /\ Len(bytes) = m /\ \A k \in 1 .. m : bytes[k] = pos + k
  BY <1>2, <1>3
<1>5. bytes = <<>> => m = 0
  BY <1>4
<1>6. most = 0 => pos = size \/ n = 0
  OBVIOUS
<1> HIDE DEF most
<1> QED BY <1>1, <1>3, <1>4, <1>5, <1>6

LEMMA ErasedBytes ==
  ASSUME NEW n \in Nat
  PROVE  /\ Filled(n, Erased) \in Seq(Int) /\ Len(Filled(n, Erased)) = n
         /\ \A k \in 1 .. n : Filled(n, Erased)[k] = Erased
BY DEF Filled, Erased

(* Two pieces, one after the other.                                         *)
LEMMA Joined ==
  ASSUME NEW S, NEW s \in Seq(S), NEW t \in Seq(S)
  PROVE  /\ s \o t \in Seq(S) /\ Len(s \o t) = Len(s) + Len(t)
         /\ \A k \in 1 .. Len(s) : (s \o t)[k] = s[k]
         /\ \A k \in 1 .. Len(t) : (s \o t)[Len(s) + k] = t[k]
         /\ \A k \in 1 .. Len(s) + Len(t) :
              k > Len(s) => k - Len(s) \in 1 .. Len(t) /\ (s \o t)[k] = t[k - Len(s)]
OBVIOUS

LEMMA Piece ==
  ASSUME NEW S, NEW s \in Seq(S), NEW m \in Nat, NEW n \in Nat, n <= Len(s), m <= n
  PROVE  /\ SubSeq(s, m + 1, n) \in Seq(S) /\ Len(SubSeq(s, m + 1, n)) = n - m
         /\ \A k \in 1 .. n - m : SubSeq(s, m + 1, n)[k] = s[m + k]
OBVIOUS

-----------------------------------------------------------------------------
(* The start: the header and the partition table.                           *)

LEMMA FlashInitHolds == FlashInit => FlashIInv
<1> SUFFICES ASSUME FlashInit PROVE FlashIInv
  OBVIOUS
<1>1. StartInv
  BY FlashAssumption DEF FlashInit, StartInv, Beginning
<1>2. TableInv
  BY DEF FlashInit, TableInv
<1>3. ~Good
  BY DEF FlashInit, Good, Beginning
<1> QED BY <1>1, <1>2, <1>3 DEF FlashIInv

(* At the start nothing is converted.                                       *)
LEMMA Untouched ==
  ASSUME StartInv, step \in Beginning, Good', UNCHANGED << size, buffer, partition, count, eccbyte,
           formatted, flash, raw, pages >>, step' = "fill", pos' = Header + PartitionStart
  PROVE  (BufferInv /\ PagesInv /\ BackInv)'
<1> USE Numbers
<1>1. /\ buffer' = <<>> /\ partition' = 0 /\ count' = 0 /\ eccbyte' = 0 /\ formatted' = TRUE
      /\ flash' = <<>> /\ raw' = <<>> /\ pages' = 0
  BY DEF StartInv
<1>2. 0 = 0 * EccBytes /\ 0 * PageSize = 0
  OBVIOUS
<1>3. BufferInv'
  BY <1>1, <1>2 DEF BufferInv, WholeBlocks, Holds
<1>4. PagesInv'
  BY <1>1, <1>2 DEF PagesInv, Finished
<1>5. BackInv'
  BY <1>1, <1>2 DEF BackInv, Holds
<1> QED BY <1>3, <1>4, <1>5

LEMMA SkipHeaderStep == FlashIInv /\ SkipHeader => FlashIInv'
<1> SUFFICES ASSUME FlashIInv, SkipHeader PROVE FlashIInv'
  OBVIOUS
<1> USE Numbers DEF FlashIInv
<1>1. PICK bytes \in CouldRead(Header) : pos' = pos + Len(bytes)
  BY DEF SkipHeader
<1>2. ~Good'
  BY DEF SkipHeader, Good, Beginning
<1>3. StartInv'
  BY DEF SkipHeader, StartInv, Beginning
<1>4. TableInv'
  <2> SUFFICES ASSUME size >= Header + PartitionStart PROVE TableInv'
    BY DEF SkipHeader, TableInv
  <2>1. pos = 0 /\ jffs' = <<>> /\ step' = "jffs" /\ size' = size
    BY DEF SkipHeader, TableInv
  <2>2. bytes \in Seq(Nat) /\ Len(bytes) <= Header
    BY <2>1, ReadBytes DEF StartInv
  <2>3. Len(bytes) \in 0 .. Header /\ pos' = Len(bytes)
    BY <1>1, <2>1, <2>2
  <2> QED BY <2>1, <2>3 DEF TableInv
<1> QED BY <1>2, <1>3, <1>4

LEMMA ReadJffsStep == FlashIInv /\ ReadJffs => FlashIInv'
<1> SUFFICES ASSUME FlashIInv, ReadJffs PROVE FlashIInv'
  OBVIOUS
<1> USE Numbers DEF FlashIInv
<1>1. /\ step = "jffs" /\ step' \in { "jffs", "fill" }
      /\ UNCHANGED << size, buffer, partition, count, eccbyte, formatted, flash, raw, pages >>
  BY DEF ReadJffs
<1>2. StartInv'
  BY <1>1 DEF StartInv, Beginning
<1>3. ASSUME ~(size >= Header + PartitionStart) PROVE FlashIInv'
  BY <1>1, <1>2, <1>3 DEF TableInv, Good
<1>4. ASSUME size >= Header + PartitionStart PROVE FlashIInv'
  <2>1. PICK h \in 0 .. Header :
          /\ jffs \in Seq(Nat) /\ Len(jffs) <= PartitionStart
          /\ \A k \in 1 .. Len(jffs) : jffs[k] = h + k
          /\ pos = h + Len(jffs)
    BY <1>1, <1>4 DEF TableInv
  <2>2. CASE Len(jffs) = PartitionStart
    <3>1. step' = "fill" /\ pos' = pos /\ jffs' = jffs
      BY <2>2 DEF ReadJffs
    <3>2. TableInv'
      BY <1>1, <2>1, <2>2, <3>1 DEF TableInv
    <3>3. ASSUME Good' PROVE pos' = Header + PartitionStart
      <4>1. jffs[1] = Header + 1 /\ jffs[1] = h + 1
        BY <2>1, <2>2, <3>1, <3>3 DEF Good
      <4> QED BY <2>1, <2>2, <3>1, <4>1
    <3>4. Good' => (BufferInv /\ PagesInv /\ BackInv)'
      BY <1>1, <3>1, <3>3, Untouched DEF Beginning
    <3> QED BY <1>2, <3>2, <3>4
  <2>3. CASE Len(jffs) # PartitionStart
    <3>1. PICK bytes \in CouldRead(PartitionStart - Len(jffs)) :
            /\ pos' = pos + Len(bytes)
            /\ step' = IF bytes = <<>> THEN "fill" ELSE step
            /\ jffs' = jffs \o IF bytes = <<>> THEN Filled(PartitionStart - Len(jffs), Garbage)
                               ELSE bytes
      BY <2>3 DEF ReadJffs
    <3>2. /\ PartitionStart - Len(jffs) \in Nat /\ PartitionStart - Len(jffs) # 0
          /\ pos \in Nat /\ pos < size
      BY <1>4, <2>1, <2>3 DEF StartInv
    <3>3. /\ bytes \in Seq(Nat) /\ Len(bytes) <= PartitionStart - Len(jffs)
          /\ \A k \in 1 .. Len(bytes) : bytes[k] = pos + k
          /\ bytes # <<>>
      BY <3>2, ReadBytes DEF StartInv
    <3>4. step' = "jffs" /\ jffs' = jffs \o bytes
      BY <1>1, <3>1, <3>3
    <3>5. /\ jffs' \in Seq(Nat) /\ Len(jffs') = Len(jffs) + Len(bytes)
          /\ \A k \in 1 .. Len(jffs) : jffs'[k] = jffs[k]
          /\ \A k \in 1 .. Len(jffs) + Len(bytes) :
               k > Len(jffs) => k - Len(jffs) \in 1 .. Len(bytes) /\ jffs'[k] = bytes[k - Len(jffs)]
      BY <2>1, <3>3, <3>4, Joined
    <3>6. \A k \in 1 .. Len(jffs') : jffs'[k] = h + k
      <4> SUFFICES ASSUME NEW k \in 1 .. Len(jffs') PROVE jffs'[k] = h + k
        OBVIOUS
      <4>1. CASE k <= Len(jffs)
        BY <2>1, <3>5, <4>1
      <4>2. CASE k > Len(jffs)
        <5> DEFINE j == k - Len(jffs)
        <5>1. j \in 1 .. Len(bytes) /\ jffs'[k] = bytes[j]
          BY <3>5, <4>2
        <5>2. bytes[j] = pos + j
          BY <3>3, <5>1
        <5> QED BY <2>1, <5>1, <5>2
      <4> QED BY <4>1, <4>2
    <3>7. Len(jffs') \in Nat /\ Len(jffs') <= PartitionStart /\ pos' = h + Len(jffs')
      BY <2>1, <3>1, <3>3, <3>5
    <3>8. TableInv'
      BY <1>1, <3>4, <3>5, <3>6, <3>7 DEF TableInv
    <3>9. ~Good'
      BY <3>4 DEF Good, Beginning
    <3> QED BY <1>2, <3>8, <3>9
  <2> QED BY <2>2, <2>3
<1> QED BY <1>3, <1>4

-----------------------------------------------------------------------------
(* The conversion: buffer_fill.                                             *)

(* What is to be shown of a step after the partition table.                 *)
LEMMA Later ==
  ASSUME FlashIInv, step \notin Beginning, step' \in { "fill", "put", "back" },
         size' = size, jffs' = jffs,
         Good => (BufferInv /\ PagesInv /\ BackInv)'
  PROVE  FlashIInv'
<1>1. StartInv'
  BY DEF FlashIInv, StartInv, Beginning
<1>2. TableInv'
  BY DEF FlashIInv, TableInv, Beginning
<1>3. Good' => Good
  BY DEF Good
<1> QED BY <1>1, <1>2, <1>3 DEF FlashIInv

(* A step that only fills the buffer.                                       *)
LEMMA OnlyFills ==
  ASSUME PagesInv, BackInv, step = "fill", step' \in { "fill", "put" },
         UNCHANGED << size, count, eccbyte, formatted, flash, raw, pages >>
  PROVE  PagesInv' /\ BackInv'
<1>1. PagesInv'
  BY DEF PagesInv, Finished, Holds, Image
<1>2. BackInv'
  BY DEF BackInv, Holds, Image
<1> QED BY <1>1, <1>2

LEMMA FillFromJffsStep == FlashIInv /\ FillFromJffs => FlashIInv'
<1> SUFFICES ASSUME FlashIInv, FillFromJffs PROVE FlashIInv'
  OBVIOUS
<1> USE PlainNumbers
<1>1. /\ step = "fill" /\ step' = "put" /\ count < 2 * PartitionStart
      /\ partition' \in { 0, 1 }
      /\ UNCHANGED << size, pos, jffs, count, eccbyte, formatted, flash, raw, pages >>
  BY DEF FillFromJffs
<1>2. ASSUME Good PROVE (BufferInv /\ PagesInv /\ BackInv)'
  <2> DEFINE from == IF count < PartitionStart THEN count ELSE count - PartitionStart
  <2>1. BufferInv /\ PagesInv /\ BackInv
    BY <1>2 DEF FlashIInv
  <2>2. PICK n \in Nat : PartitionStart = n * EccBytes
    BY Numbers
  <2>3. PICK c \in Nat : count = c * EccBytes
    BY <2>1 DEF BufferInv, WholeBlocks
  <2>4. from \in Nat /\ from + EccBytes <= PartitionStart
    <3>1. CASE count < PartitionStart
      <4>1. count + EccBytes <= PartitionStart
        BY <2>2, <2>3, <3>1, NextMultiple
      <4> QED BY <2>1, <3>1, <4>1 DEF BufferInv
    <3>2. CASE count >= PartitionStart
      <4>1. 2 * PartitionStart = (2 * n) * EccBytes /\ 2 * n \in Nat
        BY <2>2
      <4>2. count + EccBytes <= 2 * PartitionStart
        BY <1>1, <2>3, <4>1, NextMultiple
      <4> QED BY <2>1, <3>2, <4>2 DEF BufferInv
    <3> QED BY <2>1, <3>1, <3>2 DEF BufferInv
  <2>5. buffer' = SubSeq(jffs, from + 1, from + EccBytes)
    BY DEF FillFromJffs
  <2>6. jffs \in Seq(Nat) /\ Len(jffs) = PartitionStart
    BY <1>2 DEF Good
  <2>7. from + EccBytes \in Nat /\ from <= from + EccBytes /\ from + EccBytes <= Len(jffs)
        /\ from + EccBytes - from = EccBytes
    BY <2>4, <2>6
  <2> HIDE DEF from
  <2>8. /\ buffer' \in Seq(Nat) /\ Len(buffer') = EccBytes
        /\ \A k \in 1 .. EccBytes : buffer'[k] = jffs[from + k]
    BY <2>4, <2>5, <2>6, <2>7, Piece
  <2>9. buffer' \in Seq(Int)
    BY <2>8
  <2>10. \A k \in 1 .. EccBytes : buffer'[k] = Image(count + k)
    <3> SUFFICES ASSUME NEW k \in 1 .. EccBytes PROVE buffer'[k] = Image(count + k)
      OBVIOUS
    <3>1. from + k \in 1 .. PartitionStart
      BY <2>4
    <3>2. buffer'[k] = Header + (from + k)
      BY <1>2, <2>8, <3>1 DEF Good
    <3>3. count \in Nat /\ size >= Header + PartitionStart /\ size \in Nat
      BY <1>2, <2>1 DEF BufferInv, Good, FlashIInv, StartInv
    <3>4. CASE count < PartitionStart
      <4>1. from = count
        BY <3>4 DEF from
      <4> QED BY <3>1, <3>2, <3>3, <4>1 DEF Image
    <3>5. CASE count >= PartitionStart
      <4>1. from = count - PartitionStart
        BY <3>3, <3>5 DEF from
      <4>2. ~(count + k <= PartitionStart)
        BY <3>3, <3>5
      <4>3. Header + (count + k) - PartitionStart = Header + (from + k)
        BY <3>3, <4>1
      <4> QED BY <3>1, <3>2, <3>3, <4>2, <4>3 DEF Image
    <3> QED BY <3>3, <3>4, <3>5
  <2>11. BufferInv'
    <3>1. WholeBlocks'
      BY <1>1, <2>1 DEF BufferInv, WholeBlocks
    <3>2. Holds(buffer, count)'
      BY <1>1, <2>8, <2>10 DEF Holds, Image
    <3> QED BY <1>1, <2>1, <2>8, <2>9, <3>1, <3>2 DEF BufferInv
  <2>12. PagesInv' /\ BackInv'
    BY <1>1, <2>1, OnlyFills
  <2> QED BY <2>11, <2>12
<1>3. step \notin Beginning
  BY <1>1 DEF Beginning
<1> QED BY <1>1, <1>2, <1>3, Later

LEMMA FillErasedStep == FlashIInv /\ FillErased => FlashIInv'
<1> SUFFICES ASSUME FlashIInv, FillErased PROVE FlashIInv'
  OBVIOUS
<1> USE PlainNumbers
<1>1. /\ step = "fill" /\ step' = "put" /\ count >= 2 * PartitionStart /\ partition = 2
      /\ buffer' = Filled(EccBytes, Erased)
      /\ UNCHANGED << size, pos, jffs, partition, count, eccbyte, formatted, flash, raw, pages >>
  BY DEF FillErased
<1>2. ASSUME Good PROVE (BufferInv /\ PagesInv /\ BackInv)'
  <2>1. BufferInv /\ PagesInv /\ BackInv /\ size \in Nat
    BY <1>2 DEF FlashIInv, StartInv
  <2>2. /\ buffer' \in Seq(Int) /\ Len(buffer') = EccBytes
        /\ \A k \in 1 .. EccBytes : buffer'[k] = Erased
    BY <1>1, ErasedBytes
  <2>3. count \in Nat /\ size <= Header + count - PartitionStart
    BY <1>1, <2>1 DEF BufferInv
  <2>4. \A k \in 1 .. EccBytes : buffer'[k] = Image(count + k)
    BY <1>1, <2>1, <2>2, <2>3 DEF Image
  <2>5. pos = size
    BY <1>1, <2>1, <2>3 DEF BufferInv, Ahead
  <2>6. BufferInv'
    <3>1. Ahead' >= size
      BY <1>1, <2>2, <2>3, <2>1 DEF Ahead
    <3>2. Ahead' \in Int
      BY <1>1, <2>2, <2>3 DEF Ahead
    <3>3. WholeBlocks'
      BY <1>1, <2>1 DEF BufferInv, WholeBlocks
    <3>4. Holds(buffer, count)'
      BY <1>1, <2>2, <2>4 DEF Holds, Image
    <3> QED BY <1>1, <2>1, <2>2, <2>3, <2>5, <3>1, <3>2, <3>3, <3>4 DEF BufferInv
  <2>7. PagesInv' /\ BackInv'
    BY <1>1, <2>1, OnlyFills
  <2> QED BY <2>6, <2>7
<1>3. step \notin Beginning
  BY <1>1 DEF Beginning
<1> QED BY <1>1, <1>2, <1>3, Later

LEMMA FillFromInputStep == FlashIInv /\ FillFromInput => FlashIInv'
<1> SUFFICES ASSUME FlashIInv, FillFromInput PROVE FlashIInv'
  OBVIOUS
<1> USE PlainNumbers
<1>1. /\ step = "fill" /\ step' \in { "fill", "put" } /\ count >= 2 * PartitionStart /\ partition < 2
      /\ UNCHANGED << size, jffs, count, eccbyte, formatted, flash, raw, pages >>
  BY DEF FillFromInput
<1>2. ASSUME Good PROVE (BufferInv /\ PagesInv /\ BackInv)'
  <2>1. BufferInv /\ PagesInv /\ BackInv /\ size \in Nat
    BY <1>2 DEF FlashIInv, StartInv
  <2>2. /\ count \in Nat /\ buffer \in Seq(Int) /\ Len(buffer) \in Nat /\ Len(buffer) <= MaxRead
        /\ \A k \in 1 .. Len(buffer) : buffer[k] = Image(count + k)
        /\ pos = IF Ahead < size THEN Ahead ELSE size
        /\ ~(count < 2 * PartitionStart)
    BY <1>1, <2>1 DEF BufferInv, Holds
  <2>3. Ahead \in Nat /\ pos \in Nat /\ pos <= size
    BY <1>1, <2>1, <2>2 DEF Ahead
  <2>4. PagesInv' /\ BackInv' /\ WholeBlocks'
    BY <1>1, <2>1, OnlyFills DEF BufferInv, WholeBlocks
  <2>5. CASE Len(buffer) >= EccBytes
    <3>1. step' = "put" /\ partition' = 1 /\ pos' = pos /\ buffer' = buffer
      BY <2>5 DEF FillFromInput
    <3>2. BufferInv'
      <4>1. Holds(buffer, count)'
        BY <1>1, <2>2, <3>1 DEF Holds, Image
      <4>2. Ahead' = Ahead
        BY <1>1, <3>1 DEF Ahead
      <4> QED BY <1>1, <2>2, <2>4, <2>5, <3>1, <4>1, <4>2 DEF BufferInv
    <3> QED BY <2>4, <3>2
  <2>6. CASE Len(buffer) < EccBytes
    <3>1. PICK bytes \in CouldRead(MaxRead - Len(buffer)) :
            /\ pos' = pos + Len(bytes)
            /\ buffer' = buffer \o IF bytes = <<>> THEN Filled(EccBytes - Len(buffer), Erased)
                                   ELSE bytes
            /\ partition' = IF bytes = <<>> /\ buffer = <<>> THEN 2 ELSE 1
            /\ step' = IF bytes = <<>> THEN "put" ELSE step
      <4>1. ~(Len(buffer) >= EccBytes)
        BY <2>2, <2>6
      <4> QED BY <4>1 DEF FillFromInput
    <3>2. MaxRead - Len(buffer) \in Nat /\ MaxRead - Len(buffer) # 0
      BY <2>2, <2>6
    <3>3. /\ bytes \in Seq(Nat) /\ Len(bytes) <= MaxRead - Len(buffer) /\ pos + Len(bytes) <= size
          /\ \A k \in 1 .. Len(bytes) : bytes[k] = pos + k
          /\ bytes = <<>> => pos = size
      BY <2>1, <2>3, <3>2, ReadBytes
    <3> DEFINE got == IF bytes = <<>> THEN Filled(EccBytes - Len(buffer), Erased) ELSE bytes
    <3>4. /\ got \in Seq(Int) /\ Len(got) \in Nat /\ Len(got) <= MaxRead - Len(buffer)
          /\ \A k \in 1 .. Len(got) : got[k] = Image(count + Len(buffer) + k)
          /\ bytes = <<>> => Len(buffer) + Len(got) = EccBytes
          /\ bytes # <<>> => got = bytes
      <4>1. CASE bytes = <<>>
        <5>1. EccBytes - Len(buffer) \in Nat
          BY <2>2, <2>6
        <5>2. /\ got \in Seq(Int) /\ Len(got) = EccBytes - Len(buffer)
              /\ \A k \in 1 .. EccBytes - Len(buffer) : got[k] = Erased
          BY <4>1, <5>1, ErasedBytes
        <5>3. size <= Ahead
          BY <2>1, <2>2, <2>3, <3>3, <4>1
        <5>4. \A k \in Nat \ {0} : Image(count + Len(buffer) + k) = Erased
          BY <1>1, <2>1, <2>2, <5>3 DEF Image, Ahead
        <5> HIDE DEF got
        <5>5. Len(got) \in Nat /\ Len(got) <= MaxRead - Len(buffer)
              /\ Len(buffer) + Len(got) = EccBytes
          BY <2>2, <5>1, <5>2
        <5>6. \A k \in 1 .. Len(got) : k \in Nat \ {0} /\ k \in 1 .. EccBytes - Len(buffer)
          BY <5>2
        <5> QED BY <4>1, <5>2, <5>4, <5>5, <5>6
      <4>2. CASE bytes # <<>>
        <5>1. Len(bytes) \in Nat /\ Len(bytes) # 0
          BY <3>3, <4>2
        <5>2. pos = Ahead /\ Ahead + Len(bytes) <= size
          BY <2>1, <2>2, <2>3, <3>3, <5>1
        <5>3. \A k \in 1 .. Len(bytes) : Image(count + Len(buffer) + k) = Ahead + k
          BY <1>1, <2>1, <2>2, <5>1, <5>2 DEF Image, Ahead
        <5> QED BY <3>3, <4>2, <5>1, <5>2, <5>3
      <4> QED BY <4>1, <4>2
    <3>5. buffer' = buffer \o got
      BY <3>1
    <3> HIDE DEF got
    <3>6. /\ buffer' \in Seq(Int) /\ Len(buffer') = Len(buffer) + Len(got)
          /\ \A k \in 1 .. Len(buffer) : buffer'[k] = buffer[k]
          /\ \A k \in 1 .. Len(buffer) + Len(got) :
               k > Len(buffer) => k - Len(buffer) \in 1 .. Len(got) /\ buffer'[k] = got[k - Len(buffer)]
      BY <2>2, <3>4, <3>5, Joined
    <3>7. \A k \in 1 .. Len(buffer') : buffer'[k] = Image(count + k)
      <4> SUFFICES ASSUME NEW k \in 1 .. Len(buffer') PROVE buffer'[k] = Image(count + k)
        OBVIOUS
      <4>1. CASE k <= Len(buffer)
        BY <2>2, <3>6, <4>1
      <4>2. CASE k > Len(buffer)
        <5> DEFINE j == k - Len(buffer)
        <5>1. j \in 1 .. Len(got) /\ buffer'[k] = got[j]
          BY <3>6, <4>2
        <5>2. got[j] = Image(count + Len(buffer) + j)
          BY <3>4, <5>1
        <5>3. count + Len(buffer) + j = count + k
          BY <2>2
        <5> QED BY <5>1, <5>2, <5>3
      <4> QED BY <2>2, <4>1, <4>2
    <3>8. pos' = IF Ahead' < size THEN Ahead' ELSE size
      <4>1. Ahead' = Ahead + Len(got)
        BY <1>1, <2>2, <3>4, <3>6 DEF Ahead
      <4>2. CASE bytes = <<>>
        BY <2>1, <2>2, <2>3, <3>1, <3>3, <3>4, <4>1, <4>2
      <4>3. CASE bytes # <<>>
        <5>1. Len(bytes) \in Nat /\ Len(bytes) # 0
          BY <3>3, <4>3
        <5>2. pos = Ahead /\ Ahead + Len(bytes) <= size
          BY <2>1, <2>2, <2>3, <3>3, <5>1
        <5> QED BY <2>1, <2>3, <3>1, <3>4, <4>1, <4>3, <5>1, <5>2
      <4> QED BY <4>2, <4>3
    <3>9. step' = "put" => Len(buffer') = EccBytes
      BY <1>1, <3>1, <3>4, <3>6
    <3>10. partition' \in 1 .. 2 /\ (partition' = 2 => size <= Header + count - PartitionStart)
      <4>1. CASE bytes = <<>> /\ buffer = <<>>
        <5>1. Ahead = Header + count - PartitionStart /\ pos = size
          BY <2>2, <3>3, <4>1 DEF Ahead
        <5> QED BY <2>1, <2>2, <2>3, <3>1, <4>1, <5>1
      <4>2. CASE ~(bytes = <<>> /\ buffer = <<>>)
        BY <3>1, <4>2
      <4> QED BY <4>1, <4>2
    <3>11. Len(buffer') <= MaxRead
      BY <2>2, <3>4, <3>6
    <3>12. BufferInv'
      <4>1. Holds(buffer, count)'
        BY <1>1, <3>7 DEF Holds, Image
      <4>2. count' = count /\ count' \in Nat /\ ~(count' < 2 * PartitionStart)
        BY <1>1, <2>2
      <4> QED BY <1>1, <2>4, <3>6, <3>8, <3>9, <3>10, <3>11, <4>1, <4>2 DEF BufferInv
    <3> QED BY <2>4, <3>12
  <2> QED BY <2>2, <2>5, <2>6
<1>3. step \notin Beginning
  BY <1>1 DEF Beginning
<1> QED BY <1>1, <1>2, <1>3, Later

-----------------------------------------------------------------------------
(* The conversion: a block is written.                                      *)

PageRecord == [ data : Seq(Int), formatted : BOOLEAN ]

PageEnds == eccbyte + 1 >= BlocksPerPage

(* The page that Put works on has one block more.                           *)
LEMMA PutPage ==
  ASSUME FlashIInv, Good, Put
  PROVE  /\ flash' \in Seq(PageRecord) /\ Len(flash') = Finished + 1
         /\ \A p \in 1 .. Finished : flash'[p] = flash[p]
         /\ Len(flash'[Finished + 1].data) = eccbyte * EccBytes + EccBytes
         /\ \A j \in 1 .. eccbyte * EccBytes + EccBytes :
              flash'[Finished + 1].data[j] = Image(Finished * PageSize + j)
         /\ flash'[Finished + 1].formatted = (PageEnds /\ formatted)
<1> USE PlainNumbers
<1>1. BufferInv /\ PagesInv /\ StartInv /\ step = "put"
  BY DEF FlashIInv, Put
<1> DEFINE block == SubSeq(buffer, 1, EccBytes)
           old   == IF eccbyte = 0 THEN <<>> ELSE flash[Len(flash)].data
           page  == [ data |-> old \o block, formatted |-> PageEnds /\ formatted ]
           part  == eccbyte * EccBytes
<1>2. /\ flash \in Seq(PageRecord) /\ eccbyte \in 0 .. BlocksPerPage - 1 /\ Finished \in Nat
      /\ formatted \in BOOLEAN /\ Len(flash) \in Nat
      /\ Finished = IF eccbyte = 0 THEN Len(flash) ELSE Len(flash) - 1
      /\ count = Finished * PageSize + part
  BY <1>1 DEF PagesInv, PageRecord, Finished
<1>3. part \in Nat /\ (eccbyte = 0 => part = 0)
  <2>1. part \in Nat
    BY <1>2, PartOfAPage
  <2> QED BY <2>1
<1>4. old \in Seq(Int) /\ Len(old) = part /\ \A j \in 1 .. part : old[j] = Image(Finished * PageSize + j)
  <2>1. CASE eccbyte = 0
    BY <1>3, <2>1
  <2>2. CASE eccbyte # 0
    <3>1. Len(flash) \in 1 .. Len(flash) /\ flash[Len(flash)] \in PageRecord
      BY <1>2, <2>2
    <3>2. flash[Len(flash)].data \in Seq(Int)
      BY <3>1 DEF PageRecord
    <3>3. Len(flash[Len(flash)].data) = part /\ Holds(flash[Len(flash)].data, Finished * PageSize)
      BY <1>1, <2>2 DEF PagesInv
    <3> HIDE DEF part
    <3> QED BY <2>2, <3>2, <3>3 DEF Holds
  <2> QED BY <2>1, <2>2
<1>5. block \in Seq(Int) /\ Len(block) = EccBytes /\ \A j \in 1 .. EccBytes : block[j] = Image(count + j)
  <2>1. buffer \in Seq(Int) /\ Len(buffer) >= EccBytes /\ Len(buffer) \in Nat
        /\ \A k \in 1 .. Len(buffer) : buffer[k] = Image(count + k)
    BY <1>1 DEF BufferInv, Holds
  <2>2. /\ SubSeq(buffer, 0 + 1, EccBytes) \in Seq(Int) /\ Len(SubSeq(buffer, 0 + 1, EccBytes)) = EccBytes - 0
        /\ \A k \in 1 .. EccBytes - 0 : SubSeq(buffer, 0 + 1, EccBytes)[k] = buffer[0 + k]
    <3>1. 0 \in Nat /\ EccBytes <= Len(buffer) /\ 0 <= EccBytes
      BY <2>1
    <3> QED BY <2>1, <3>1, Piece
  <2>3. block = SubSeq(buffer, 0 + 1, EccBytes) /\ EccBytes - 0 = EccBytes
    OBVIOUS
  <2>4. \A k \in 1 .. EccBytes : 0 + k = k /\ k \in 1 .. Len(buffer)
    BY <2>1
  <2> HIDE DEF block
  <2> QED BY <2>1, <2>2, <2>3, <2>4
<1>6. flash' = IF eccbyte = 0 THEN Append(flash, page) ELSE [flash EXCEPT ![Len(flash)] = page]
  <2>1. CASE eccbyte = 0
    <3>1. flash' = Append(flash, [ data |-> block, formatted |-> PageEnds /\ formatted ])
      BY <2>1 DEF Put, PageEnds
    <3>2. old \o block = block
      BY <1>5, <2>1
    <3> QED BY <2>1, <3>1, <3>2
  <2>2. CASE eccbyte # 0
    BY <2>2 DEF Put, PageEnds
  <2> QED BY <2>1, <2>2
<1> HIDE DEF block, old
<1>7. /\ old \o block \in Seq(Int) /\ Len(old \o block) = part + EccBytes
      /\ \A j \in 1 .. part : (old \o block)[j] = old[j]
      /\ \A j \in 1 .. part + EccBytes :
           j > part => j - part \in 1 .. EccBytes /\ (old \o block)[j] = block[j - part]
  <2> HIDE DEF part
  <2>1. /\ old \o block \in Seq(Int) /\ Len(old \o block) = Len(old) + Len(block)
        /\ \A j \in 1 .. Len(old) : (old \o block)[j] = old[j]
        /\ \A j \in 1 .. Len(old) + Len(block) :
             j > Len(old) => j - Len(old) \in 1 .. Len(block)
                             /\ (old \o block)[j] = block[j - Len(old)]
    BY <1>4, <1>5, Joined
  <2> QED BY <1>4, <1>5, <2>1
<1> HIDE DEF part
<1>8. page \in PageRecord /\ page.data = old \o block /\ page.formatted = (PageEnds /\ formatted)
  BY <1>2, <1>7 DEF PageRecord
<1>9. /\ flash' \in Seq(PageRecord) /\ Len(flash') = Finished + 1 /\ flash'[Finished + 1] = page
      /\ \A p \in 1 .. Finished : flash'[p] = flash[p]
  <2> HIDE DEF page
  <2>1. CASE eccbyte = 0
    BY <1>2, <1>6, <1>8, <2>1
  <2>2. CASE eccbyte # 0
    <3>1. Len(flash) = Finished + 1 /\ Len(flash) \in 1 .. Len(flash)
      BY <1>2, <2>2
    <3>2. flash' = [flash EXCEPT ![Len(flash)] = page]
      BY <1>6, <2>2
    <3> QED BY <1>2, <1>8, <3>1, <3>2
  <2> QED BY <2>1, <2>2
<1>10. \A j \in 1 .. part + EccBytes : page.data[j] = Image(Finished * PageSize + j)
  <2> SUFFICES ASSUME NEW j \in 1 .. part + EccBytes
               PROVE  (old \o block)[j] = Image(Finished * PageSize + j)
    BY <1>8
  <2> DEFINE base == Finished * PageSize
  <2>1. count = base + part /\ base \in Int
    BY <1>2, Numbers
  <2>2. \A k \in 1 .. part : old[k] = Image(base + k)
    BY <1>4
  <2> HIDE DEF base
  <2>3. CASE j <= part
    <3>1. (old \o block)[j] = Image(base + j)
      BY <1>3, <1>7, <2>2, <2>3
    <3> QED BY <3>1 DEF base
  <2>4. CASE j > part
    <3>1. j - part \in 1 .. EccBytes /\ (old \o block)[j] = block[j - part]
      BY <1>7, <2>4
    <3>2. block[j - part] = Image(count + (j - part))
      BY <1>5, <3>1
    <3>3. count + (j - part) = base + j
      BY <1>3, <2>1
    <3>4. (old \o block)[j] = Image(base + j)
      BY <3>1, <3>2, <3>3
    <3> QED BY <3>4 DEF base
  <2>5. j <= part \/ j > part
    BY <1>3
  <2> QED BY <2>3, <2>4, <2>5
<1>11. Len(page.data) = part + EccBytes
  BY <1>7, <1>8
<1> QED BY <1>8, <1>9, <1>10, <1>11 DEF part

(* The invariant of the pages, after it.                                    *)
LEMMA PutPages ==
  ASSUME FlashIInv, Good, Put
  PROVE  PagesInv'
<1> USE PlainNumbers
<1> DEFINE F    == Finished
           part == eccbyte * EccBytes
<1>1. PagesInv /\ StartInv /\ BufferInv
  BY DEF FlashIInv
<1>2. /\ eccbyte \in 0 .. BlocksPerPage - 1 /\ F \in Nat /\ formatted \in BOOLEAN
      /\ count = F * PageSize + part /\ BlocksPerPage \in Nat \ {0}
  BY <1>1, Numbers DEF PagesInv
<1>3. /\ size' = size /\ count' = count + EccBytes /\ partition' = partition
      /\ eccbyte' = IF PageEnds THEN 0 ELSE eccbyte + 1
      /\ formatted' = IF PageEnds THEN partition < 2 ELSE formatted
  BY DEF Put, PageEnds
<1>4. /\ flash' \in Seq(PageRecord) /\ Len(flash') = F + 1
      /\ \A p \in 1 .. F : flash'[p] = flash[p]
      /\ Len(flash'[F + 1].data) = part + EccBytes
      /\ \A j \in 1 .. part + EccBytes : flash'[F + 1].data[j] = Image(F * PageSize + j)
      /\ flash'[F + 1].formatted = (PageEnds /\ formatted)
  BY PutPage
<1>5. /\ part \in Nat /\ (eccbyte + 1) * EccBytes = part + EccBytes
      /\ PageEnds => part + EccBytes = PageSize
  <2>1. PageEnds => eccbyte + 1 = BlocksPerPage
    BY <1>2 DEF PageEnds
  <2> QED BY <1>2, <2>1, PartOfAPage
<1>6. /\ (F + 1) * PageSize = F * PageSize + PageSize /\ F * PageSize \in Nat
      /\ PageSize \in Nat /\ F + 1 - 1 = F
  BY <1>2, Numbers
<1>7. /\ eccbyte' \in 0 .. BlocksPerPage - 1
      /\ Finished' = IF PageEnds THEN F + 1 ELSE F
  BY <1>2, <1>3, <1>4 DEF PageEnds, Finished
<1>8. formatted' \in BOOLEAN /\ (~formatted' /\ PageEnds => partition = 2)
  <2>0. partition \in 0 .. 2
    BY <1>1 DEF BufferInv
  <2>1. CASE ~PageEnds
    BY <1>2, <1>3, <2>1
  <2>2. CASE PageEnds /\ partition < 2
    <3>1. formatted' = TRUE
      BY <1>3, <2>2
    <3> QED BY <3>1
  <2>3. CASE PageEnds /\ ~(partition < 2)
    <3>1. formatted' = FALSE
      <4>1. formatted' = (partition < 2)
        BY <2>3 DEF Put, PageEnds
      <4>2. (partition < 2) = FALSE
        BY <2>0, <2>3
      <4> QED BY <4>1, <4>2
    <3>2. partition = 2
      BY <2>0, <2>3
    <3> QED BY <3>1, <3>2
  <2> QED BY <2>1, <2>2, <2>3
<1>9. \A p \in 1 .. F :
        /\ Len(flash'[p].data) = PageSize
        /\ \A j \in 1 .. PageSize : flash'[p].data[j] = Image((p - 1) * PageSize + j)
        /\ ~flash'[p].formatted => \A j \in 1 .. PageSize : Image((p - 1) * PageSize + j) = Erased
  <2> SUFFICES ASSUME NEW p \in 1 .. F
               PROVE  /\ Len(flash[p].data) = PageSize
                      /\ \A j \in 1 .. PageSize : flash[p].data[j] = Image((p - 1) * PageSize + j)
                      /\ ~flash[p].formatted =>
                           \A j \in 1 .. PageSize : Image((p - 1) * PageSize + j) = Erased
    BY <1>4
  <2>1. /\ Len(flash[p].data) = PageSize /\ Holds(flash[p].data, (p - 1) * PageSize)
        /\ ~flash[p].formatted => \A j \in 1 .. PageSize : Image((p - 1) * PageSize + j) = Erased
    BY <1>1 DEF PagesInv
  <2> QED BY <2>1 DEF Holds
(* Nothing of the image comes after a page that is not marked.              *)
<1>10. ~formatted => \A k \in Nat : k > F * PageSize => Image(k) = Erased
  BY <1>1 DEF PagesInv
<1>11. ~formatted' /\ PageEnds => \A k \in Nat : k > count => Image(k) = Erased
  <2> SUFFICES ASSUME partition = 2, NEW k \in Nat, k > count PROVE Image(k) = Erased
    BY <1>8
  <2>1. count \in Nat /\ count >= 2 * PartitionStart /\ size <= Header + count - PartitionStart
    BY <1>1 DEF BufferInv
  <2> QED BY <1>1, <2>1 DEF Image, StartInv
<1>12. CASE PageEnds
  <2>1. count' = (F + 1) * PageSize /\ count' = count + EccBytes /\ count \in Nat
    BY <1>1, <1>2, <1>3, <1>5, <1>6, <1>12 DEF BufferInv
  <2>2. Finished' = F + 1 /\ eccbyte' = 0 /\ 0 * EccBytes = 0
    BY <1>3, <1>7, <1>12
  <2>3. \A p \in 1 .. F + 1 :
          /\ Len(flash'[p].data) = PageSize
          /\ \A j \in 1 .. PageSize : flash'[p].data[j] = Image((p - 1) * PageSize + j)
          /\ ~flash'[p].formatted => \A j \in 1 .. PageSize : Image((p - 1) * PageSize + j) = Erased
    <3> SUFFICES ASSUME NEW p \in 1 .. F + 1
                 PROVE  /\ Len(flash'[p].data) = PageSize
                        /\ \A j \in 1 .. PageSize : flash'[p].data[j] = Image((p - 1) * PageSize + j)
                        /\ ~flash'[p].formatted =>
                             \A j \in 1 .. PageSize : Image((p - 1) * PageSize + j) = Erased
      OBVIOUS
    <3>1. CASE p # F + 1
      <4>1. F \in Nat
        BY <1>2
      <4> HIDE DEF F
      <4>2. p \in 1 .. F
        BY <3>1, <4>1
      <4> QED BY <1>9, <4>2
    <3>2. CASE p = F + 1
      <4>1. p - 1 = F /\ Len(flash'[p].data) = PageSize
        <5>1. p - 1 = F
          BY <1>2, <3>2
        <5>2. Len(flash'[p].data) = part + EccBytes
          BY <1>4, <3>2
        <5> QED BY <1>5, <1>12, <5>1, <5>2
      <4>2. \A j \in 1 .. PageSize : flash'[p].data[j] = Image(F * PageSize + j)
        BY <1>4, <1>5, <1>12, <3>2
      <4>3. ~flash'[p].formatted => ~formatted
        BY <1>4, <1>12, <3>2
      <4>4. \A j \in 1 .. PageSize : F * PageSize + j \in Nat /\ F * PageSize + j > F * PageSize
        BY <1>6
      <4> QED BY <1>10, <4>1, <4>2, <4>3, <4>4
    <3> QED BY <3>1, <3>2
  <2>4. ~formatted' => \A k \in Nat : k > (F + 1) * PageSize => Image(k) = Erased
    <3> SUFFICES ASSUME ~formatted', NEW k \in Nat, k > count' PROVE Image(k) = Erased
      BY <2>1
    <3>1. k > count
      BY <2>1
    <3> QED BY <1>11, <1>12, <3>1
  <2>5. ASSUME NEW p \in 1 .. F + 1 PROVE Holds(flash[p].data, (p - 1) * PageSize)'
    BY <1>3, <2>3 DEF Holds, Image
  <2>6. count' = (F + 1) * PageSize + 0
    BY <1>6, <2>1
  <2> HIDE DEF F, part
  <2> QED BY <1>3, <1>4, <1>7, <1>8, <2>2, <2>3, <2>4, <2>5, <2>6 DEF PagesInv, PageRecord, Image
<1>13. CASE ~PageEnds
  <2>1. Finished' = F /\ eccbyte' = eccbyte + 1 /\ eccbyte' # 0 /\ formatted' = formatted
    BY <1>2, <1>3, <1>7, <1>13
  <2>2. count' = F * PageSize + eccbyte' * EccBytes
    BY <1>2, <1>3, <1>5, <1>6, <2>1
  <2>3. /\ Len(flash'[Len(flash')].data) = eccbyte' * EccBytes
        /\ \A j \in 1 .. Len(flash'[Len(flash')].data) :
             flash'[Len(flash')].data[j] = Image(F * PageSize + j)
    BY <1>4, <1>5, <2>1
  <2>4. Holds(flash[Len(flash)].data, Finished * PageSize)'
    BY <1>3, <2>1, <2>3 DEF Holds, Image
  <2>5. ASSUME NEW p \in 1 .. F PROVE Holds(flash[p].data, (p - 1) * PageSize)'
    BY <1>3, <1>9 DEF Holds, Image
  <2>6. \A p \in 1 .. F :
          ~flash'[p].formatted => \A j \in 1 .. PageSize : Image((p - 1) * PageSize + j)' = Erased
    BY <1>3, <1>9 DEF Image
  <2>7. ~formatted => \A k \in Nat : k > F * PageSize => Image(k)' = Erased
    BY <1>3, <1>10 DEF Image
  <2> HIDE DEF F, part
  <2>8. (\A p \in 1 .. Finished :
           /\ Len(flash[p].data) = PageSize
           /\ Holds(flash[p].data, (p - 1) * PageSize)
           /\ ~flash[p].formatted =>
                \A j \in 1 .. PageSize : Image((p - 1) * PageSize + j) = Erased)'
    BY <1>9, <2>1, <2>5, <2>6
  <2>9. (~formatted => \A k \in Nat : k > Finished * PageSize => Image(k) = Erased)'
    BY <2>1, <2>7
  <2>10. (eccbyte # 0 =>
            /\ Len(flash[Len(flash)].data) = eccbyte * EccBytes
            /\ Holds(flash[Len(flash)].data, Finished * PageSize))'
    BY <2>3, <2>4
  <2>11. (flash \in Seq([ data : Seq(Int), formatted : BOOLEAN ]))'
    BY <1>4 DEF PageRecord
  <2> QED BY <1>2, <1>7, <1>8, <2>1, <2>2, <2>8, <2>9, <2>10, <2>11 DEF PagesInv
<1> QED BY <1>12, <1>13

(* The buffer, after it: what is left of it comes next.                     *)
LEMMA PutBuffer ==
  ASSUME FlashIInv, Good, Put
  PROVE  BufferInv'
<1> USE PlainNumbers
<1>1. /\ step = "put" /\ step' = "fill" /\ count' = count + EccBytes
      /\ buffer' = SubSeq(buffer, EccBytes + 1, Len(buffer))
      /\ UNCHANGED << size, pos, partition >>
  BY DEF Put
<1>2. /\ BufferInv /\ count \in Nat /\ partition \in 0 .. 2 /\ size \in Nat
      /\ buffer \in Seq(Int) /\ Len(buffer) \in Nat /\ Len(buffer) <= MaxRead
      /\ EccBytes <= Len(buffer)
      /\ \A k \in 1 .. Len(buffer) : buffer[k] = Image(count + k)
  BY <1>1 DEF FlashIInv, StartInv, BufferInv, Holds
<1>3. /\ buffer' \in Seq(Int) /\ Len(buffer') = Len(buffer) - EccBytes
      /\ \A k \in 1 .. Len(buffer) - EccBytes : buffer'[k] = buffer[EccBytes + k]
  <2> DEFINE rest == SubSeq(buffer, EccBytes + 1, Len(buffer))
  <2>1. /\ rest \in Seq(Int) /\ Len(rest) = Len(buffer) - EccBytes
        /\ \A k \in 1 .. Len(buffer) - EccBytes : rest[k] = buffer[EccBytes + k]
    <3>1. buffer \in Seq(Int) /\ EccBytes \in Nat /\ Len(buffer) \in Nat /\ Len(buffer) <= Len(buffer)
          /\ EccBytes <= Len(buffer)
      BY <1>2
    <3> QED BY <3>1, Piece
  <2>2. buffer' = rest
    BY <1>1
  <2> HIDE DEF rest
  <2> QED BY <2>1, <2>2
<1>4. Holds(buffer, count)'
  <2> SUFFICES ASSUME NEW k \in 1 .. Len(buffer') PROVE buffer'[k] = Image(count' + k)
    BY <1>1 DEF Holds, Image
  <2>1. EccBytes + k \in 1 .. Len(buffer) /\ count + (EccBytes + k) = count' + k
        /\ k \in 1 .. Len(buffer) - EccBytes
    BY <1>1, <1>2, <1>3
  <2> QED BY <1>2, <1>3, <2>1
<1>5. PICK c \in Nat : count = c * EccBytes
  BY <1>2 DEF BufferInv, WholeBlocks
<1>6. WholeBlocks'
  <2>1. (c + 1) * EccBytes = c * EccBytes + EccBytes /\ c + 1 \in Nat
    OBVIOUS
  <2> QED BY <1>1, <1>5, <2>1 DEF WholeBlocks
<1>7. count < 2 * PartitionStart => count + EccBytes <= 2 * PartitionStart
  <2>1. PICK n \in Nat : PartitionStart = n * EccBytes
    BY Numbers
  <2>2. 2 * PartitionStart = (2 * n) * EccBytes /\ 2 * n \in Nat
    BY <2>1
  <2> QED BY <1>5, <2>2, NextMultiple
<1>8. size >= Header + PartitionStart
  BY DEF Good
<1>9. Ahead' = Header + (count + EccBytes) - PartitionStart + (Len(buffer) - EccBytes)
  BY <1>1, <1>3 DEF Ahead
<1>10. CASE count < 2 * PartitionStart
  <2>1. pos = Header + PartitionStart /\ partition < 2 /\ Len(buffer) = EccBytes
    BY <1>1, <1>2, <1>10 DEF BufferInv
  <2>2. Len(buffer') = 0 /\ buffer' = <<>>
    BY <1>3, <2>1
  <2>3. count' >= 2 * PartitionStart => Ahead' = Header + PartitionStart
    BY <1>1, <1>2, <1>7, <1>9, <1>10, <2>1
  <2>4. (count >= 2 * PartitionStart => pos = IF Ahead < size THEN Ahead ELSE size)'
    BY <1>1, <1>2, <1>8, <2>1, <2>3
  <2> QED BY <1>1, <1>2, <1>3, <1>4, <1>6, <2>1, <2>2, <2>4 DEF BufferInv
<1>11. CASE ~(count < 2 * PartitionStart)
  <2>1. Ahead' = Ahead
    BY <1>2, <1>9 DEF Ahead
  <2>2. pos = (IF Ahead < size THEN Ahead ELSE size)
        /\ (partition = 2 => size <= Header + count - PartitionStart)
    BY <1>2, <1>11 DEF BufferInv
  <2>3. ~(count' < 2 * PartitionStart)
    BY <1>1, <1>2, <1>11
  <2>4. (partition = 2 => size <= Header + count - PartitionStart)'
    BY <1>1, <1>2, <2>2
  <2> QED BY <1>1, <1>2, <1>3, <1>4, <1>6, <2>1, <2>2, <2>3, <2>4 DEF BufferInv
<1> QED BY <1>10, <1>11

LEMMA PutStep == FlashIInv /\ Put => FlashIInv'
<1> SUFFICES ASSUME FlashIInv, Put PROVE FlashIInv'
  OBVIOUS
<1>1. /\ step = "put" /\ step' = "fill" /\ step \notin Beginning
      /\ UNCHANGED << size, jffs, raw, pages >>
  BY DEF Put, Beginning
<1>2. Good => BackInv'
  <2> SUFFICES ASSUME BackInv PROVE BackInv'
    BY DEF FlashIInv
  <2> QED BY <1>1 DEF BackInv, Holds, Image
<1> QED BY <1>1, <1>2, PutBuffer, PutPages, Later

-----------------------------------------------------------------------------
(* flash2raw.                                                               *)

LEMMA ConvertStep == FlashIInv /\ Convert => FlashIInv'
<1> SUFFICES ASSUME FlashIInv, Convert PROVE FlashIInv'
  OBVIOUS
<1>1. /\ step = "fill" /\ step' = "back" /\ count = RomSize /\ step \notin Beginning
      /\ UNCHANGED << size, pos, jffs, buffer, partition, count, eccbyte, formatted, flash, raw,
                      pages >>
  BY DEF Convert, Beginning
<1>2. ASSUME Good PROVE (BufferInv /\ PagesInv /\ BackInv)'
  <2>1. BufferInv /\ PagesInv /\ BackInv
    BY <1>2 DEF FlashIInv
  <2>2. BufferInv'
    <3>1. Holds(buffer, count)' /\ Ahead' = Ahead /\ WholeBlocks'
      BY <1>1, <2>1 DEF Holds, Image, Ahead, BufferInv, WholeBlocks
    <3> QED BY <1>1, <2>1, <3>1 DEF BufferInv
  <2>3. PagesInv'
    BY <1>1, <2>1 DEF PagesInv, Finished, Holds, Image
  <2>4. BackInv'
    BY <1>1, <2>1 DEF BackInv, Holds, Image
  <2> QED BY <2>2, <2>3, <2>4
<1> QED BY <1>1, <1>2, Later

LEMMA PageBackStep == FlashIInv /\ PageBack => FlashIInv'
<1> SUFFICES ASSUME FlashIInv, PageBack PROVE FlashIInv'
  OBVIOUS
<1> USE PlainNumbers
<1>1. /\ step = "back" /\ step' = step /\ step \notin Beginning /\ Len(raw) < RomSize
      /\ raw' = raw \o flash[pages + 1].data /\ pages' = pages + 1
      /\ UNCHANGED << size, pos, jffs, buffer, partition, count, eccbyte, formatted, flash >>
  BY DEF PageBack, Beginning
<1>2. ASSUME Good PROVE (BufferInv /\ PagesInv /\ BackInv)'
  <2>1. BufferInv /\ PagesInv /\ BackInv /\ size \in Nat
    BY <1>2 DEF FlashIInv, StartInv
  <2>2. BufferInv'
    <3>1. Holds(buffer, count)' /\ Ahead' = Ahead /\ WholeBlocks'
      BY <1>1, <2>1 DEF Holds, Image, Ahead, BufferInv, WholeBlocks
    <3> QED BY <1>1, <2>1, <3>1 DEF BufferInv
  <2>3. PagesInv'
    BY <1>1, <2>1 DEF PagesInv, Finished, Holds, Image
  <2>4. /\ pages \in Nat /\ raw \in Seq(Int) /\ Len(raw) = pages * PageSize
        /\ \A j \in 1 .. Len(raw) : raw[j] = Image(j) /\ count = RomSize
    <3>1. \A j \in 1 .. Len(raw) : 0 + j = j
      OBVIOUS
    <3> QED BY <1>1, <2>1, <3>1 DEF BackInv, Holds
  <2>5. /\ Finished = Len(flash) /\ Finished * PageSize = RomSize /\ Finished \in Nat
        /\ PageSize \in Nat
    BY <1>1, <2>1, WholePages, Numbers DEF BackInv, PagesInv
  <2>6. pages + 1 <= Finished /\ (pages + 1) * PageSize = pages * PageSize + PageSize
        /\ pages * PageSize \in Nat
    <3>1. pages * PageSize < Finished * PageSize
      BY <1>1, <2>4, <2>5
    <3>2. pages * PageSize \in Nat
      BY <2>4, <2>5
    <3> QED BY <2>4, <2>5, <3>1, <3>2, NextMultiple
  <2> DEFINE data == flash[pages + 1].data
  <2>7. pages + 1 \in 1 .. Finished /\ (pages + 1) - 1 = pages
    BY <2>4, <2>5, <2>6
  <2>8. Len(data) = PageSize /\ Holds(data, pages * PageSize)
    BY <2>1, <2>7 DEF PagesInv
  <2>9. data \in Seq(Int)
    <3>1. flash \in Seq(PageRecord)
      BY <2>1 DEF PagesInv, PageRecord
    <3>2. flash[pages + 1] \in PageRecord
      BY <2>5, <2>7, <3>1
    <3> QED BY <3>2 DEF PageRecord
  <2>10. raw' = raw \o data
    BY <1>1
  <2> HIDE DEF data
  <2>11. /\ raw' \in Seq(Int) /\ Len(raw') = Len(raw) + Len(data)
         /\ \A k \in 1 .. Len(raw) : raw'[k] = raw[k]
         /\ \A k \in 1 .. Len(raw) + Len(data) :
              k > Len(raw) => k - Len(raw) \in 1 .. Len(data) /\ raw'[k] = data[k - Len(raw)]
    BY <2>4, <2>9, <2>10, Joined
  <2>12. \A k \in 1 .. Len(raw') : raw'[k] = Image(k)
    <3> SUFFICES ASSUME NEW k \in 1 .. Len(raw') PROVE raw'[k] = Image(k)
      OBVIOUS
    <3>1. CASE k <= Len(raw)
      BY <2>4, <2>11, <3>1
    <3>2. CASE k > Len(raw)
      <4>1. k - Len(raw) \in 1 .. Len(data) /\ raw'[k] = data[k - Len(raw)]
        BY <2>11, <3>2
      <4>2. data[k - Len(raw)] = Image(Len(raw) + (k - Len(raw)))
        BY <2>4, <2>8, <4>1 DEF Holds
      <4>3. Len(raw) + (k - Len(raw)) = k
        BY <2>4
      <4> QED BY <4>1, <4>2, <4>3
    <3> QED BY <2>4, <3>1, <3>2
  <2>13. Holds(raw, 0)'
    <3>1. \A j \in 1 .. Len(raw') : 0 + j = j
      OBVIOUS
    <3>2. \A j \in 1 .. Len(raw') : Image(j)' = raw'[j]
      BY <1>1, <2>12 DEF Image
    <3> QED BY <1>1, <2>12, <3>1, <3>2 DEF Holds, Image
  <2>14. Len(raw') = pages' * PageSize /\ pages' \in Nat
    BY <1>1, <2>4, <2>6, <2>8, <2>11
  <2>15. BackInv'
    <3>1. count' = RomSize /\ step' = "back"
      BY <1>1, <2>1 DEF BackInv
    <3> QED BY <2>11, <2>13, <2>14, <3>1 DEF BackInv
  <2> QED BY <2>2, <2>3, <2>15
<1> QED BY <1>1, <1>2, Later

-----------------------------------------------------------------------------
LEMMA Unchanged == FlashIInv /\ UNCHANGED fvars => FlashIInv'
<1> SUFFICES ASSUME FlashIInv, UNCHANGED fvars PROVE FlashIInv'
  OBVIOUS
<1>1. UNCHANGED << size, pos, step, jffs, buffer, partition, count, eccbyte, formatted, flash, raw,
                   pages >>
  BY DEF fvars
<1>2. StartInv' /\ TableInv' /\ (Good' => Good)
  BY <1>1 DEF FlashIInv, StartInv, TableInv, Good
<1>3. BufferInv => BufferInv'
  BY <1>1 DEF BufferInv, WholeBlocks, Holds, Image, Ahead
<1>4. PagesInv => PagesInv'
  BY <1>1 DEF PagesInv, Finished, Holds, Image
<1>5. BackInv => BackInv'
  BY <1>1 DEF BackInv, Holds, Image
<1> QED BY <1>2, <1>3, <1>4, <1>5 DEF FlashIInv

LEMMA StepHolds == FlashIInv /\ [FlashNext]_fvars => FlashIInv'
BY SkipHeaderStep, ReadJffsStep, FillFromJffsStep, FillFromInputStep, FillErasedStep, PutStep,
   ConvertStep, PageBackStep, Unchanged DEF FlashNext

(* When flash2raw is done the invariant says what FlashWhole does.          *)
LEMMA AllWritten == FlashIInv => FlashWhole
<1> SUFFICES ASSUME FlashIInv, Over, size >= Header + PartitionStart, jffs[1] = Header + 1
             PROVE  /\ raw = [k \in 1 .. RomSize |-> Image(k)]
                    /\ \A p \in DOMAIN flash :
                         (\E b \in ToSet(flash[p].data) : b # Erased) => flash[p].formatted
  BY DEF FlashWhole
<1> USE PlainNumbers
<1>1. step = "back" /\ Len(raw) = RomSize
  BY DEF Over
<1>2. Good
  <2>1. PICK h \in 0 .. Header :
          /\ jffs \in Seq(Nat) /\ Len(jffs) = PartitionStart
          /\ \A k \in 1 .. PartitionStart : jffs[k] = h + k
    BY <1>1 DEF FlashIInv, TableInv
  <2>2. h = Header
    BY <2>1
  <2> QED BY <1>1, <2>1, <2>2 DEF Good, Beginning
<1>3. PagesInv /\ BackInv
  BY <1>2 DEF FlashIInv
<1>4. raw = [k \in 1 .. RomSize |-> Image(k)]
  <2>1. raw \in Seq(Int) /\ \A j \in 1 .. RomSize : raw[j] = Image(0 + j)
    BY <1>1, <1>3 DEF BackInv, Holds
  <2>2. \A j \in 1 .. RomSize : 0 + j = j
    OBVIOUS
  <2> QED BY <1>1, <2>1, <2>2
<1>5. ASSUME NEW p \in DOMAIN flash, NEW b \in ToSet(flash[p].data), b # Erased
      PROVE  flash[p].formatted
  <2>1. p \in 1 .. Finished
    <3>1. count = RomSize
      BY <1>1, <1>3 DEF BackInv
    <3>2. Finished = Len(flash)
      BY <1>3, <3>1, WholePages
    <3>3. DOMAIN flash = 1 .. Len(flash)
      BY <1>3 DEF PagesInv
    <3> QED BY <3>2, <3>3
  <2>2. /\ Len(flash[p].data) = PageSize /\ Holds(flash[p].data, (p - 1) * PageSize)
        /\ ~flash[p].formatted => \A j \in 1 .. PageSize : Image((p - 1) * PageSize + j) = Erased
    BY <1>3, <2>1 DEF PagesInv
  <2>3. flash[p] \in PageRecord
    <3>1. flash \in Seq(PageRecord)
      BY <1>3 DEF PagesInv, PageRecord
    <3> QED BY <3>1
  <2>4. PICK j \in 1 .. PageSize : flash[p].data[j] = b
    <3>1. flash[p].data \in Seq(Int)
      BY <2>3 DEF PageRecord
    <3> QED BY <2>2, <3>1 DEF ToSet
  <2> QED BY <1>5, <2>2, <2>4 DEF Holds
<1> QED BY <1>4, <1>5

(* However the bytes of an image come, and whatever the sizes: the flash    *)
(* has the partition table twice, the rest as far as there is room, then    *)
(* erased bytes; pages with bytes of the image are marked; and flash2raw    *)
(* gives back the same (main of raw2flash.c, both programs).                *)
THEOREM FlashWholeHolds == FlashSpec => []FlashWhole
<1>1. FlashSpec => []FlashIInv
  BY FlashInitHolds, StepHolds, PTL DEF FlashSpec
<1> QED BY <1>1, AllWritten, PTL

-----------------------------------------------------------------------------
(* The dates of at.  The calendar first: where the months of a year begin,  *)
(* and in which year and month a day is.  Numbers and sequences are kept    *)
(* behind names, so that a step shows the provers only what it uses.        *)
Years  == Int
Given  == 0 .. 99
Months == -1 .. 98

(* A year is as long as it should be, and the months fill it in order.      *)
LEMMA YearLength ==
  ASSUME NEW y \in Int
  PROVE  /\ YearStart(y) \in Int
         /\ YearStart(y + 1) = YearStart(y) + (IF Leap(y) THEN 366 ELSE 365)
BY DEF YearStart, Leap

LeapDay(y) == IF Leap(y) THEN 1 ELSE 0

LEMMA MonthTable ==
  ASSUME NEW y \in Int
  PROVE  /\ MonthStart(y, 0) = YearStart(y)
         /\ MonthStart(y, 1) = YearStart(y) + 31
         /\ MonthStart(y, 2) = YearStart(y) + 59 + LeapDay(y)
         /\ MonthStart(y, 3) = YearStart(y) + 90 + LeapDay(y)
         /\ MonthStart(y, 4) = YearStart(y) + 120 + LeapDay(y)
         /\ MonthStart(y, 5) = YearStart(y) + 151 + LeapDay(y)
         /\ MonthStart(y, 6) = YearStart(y) + 181 + LeapDay(y)
         /\ MonthStart(y, 7) = YearStart(y) + 212 + LeapDay(y)
         /\ MonthStart(y, 8) = YearStart(y) + 243 + LeapDay(y)
         /\ MonthStart(y, 9) = YearStart(y) + 273 + LeapDay(y)
         /\ MonthStart(y, 10) = YearStart(y) + 304 + LeapDay(y)
         /\ MonthStart(y, 11) = YearStart(y) + 334 + LeapDay(y)
<1>1. PICK ys \in Int : ys = YearStart(y)
  BY YearLength
<1>2. DaysIn(y, 1) = 28 + LeapDay(y) /\ LeapDay(y) \in 0 .. 1
  BY DEF DaysIn, LeapDay
<1>3. \A m \in { 0, 2, 4, 6, 7, 9, 11 } : DaysIn(y, m) = 31
  BY DEF DaysIn
<1>4. \A m \in { 3, 5, 8, 10 } : DaysIn(y, m) = 30
  BY DEF DaysIn
<1>m0. MonthStart(y, 0) = YearStart(y)
  BY <1>1, <1>2, <1>3, <1>4 DEF MonthStart
<1>m1. MonthStart(y, 1) = YearStart(y) + 31
  BY <1>1, <1>2, <1>3, <1>4 DEF MonthStart
<1>m2. MonthStart(y, 2) = YearStart(y) + 59 + LeapDay(y)
  BY <1>1, <1>2, <1>3, <1>4 DEF MonthStart
<1>m3. MonthStart(y, 3) = YearStart(y) + 90 + LeapDay(y)
  BY <1>1, <1>2, <1>3, <1>4 DEF MonthStart
<1>m4. MonthStart(y, 4) = YearStart(y) + 120 + LeapDay(y)
  BY <1>1, <1>2, <1>3, <1>4 DEF MonthStart
<1>m5. MonthStart(y, 5) = YearStart(y) + 151 + LeapDay(y)
  BY <1>1, <1>2, <1>3, <1>4 DEF MonthStart
<1>m6. MonthStart(y, 6) = YearStart(y) + 181 + LeapDay(y)
  BY <1>1, <1>2, <1>3, <1>4 DEF MonthStart
<1>m7. MonthStart(y, 7) = YearStart(y) + 212 + LeapDay(y)
  BY <1>1, <1>2, <1>3, <1>4 DEF MonthStart
<1>m8. MonthStart(y, 8) = YearStart(y) + 243 + LeapDay(y)
  BY <1>1, <1>2, <1>3, <1>4 DEF MonthStart
<1>m9. MonthStart(y, 9) = YearStart(y) + 273 + LeapDay(y)
  BY <1>1, <1>2, <1>3, <1>4 DEF MonthStart
<1>m10. MonthStart(y, 10) = YearStart(y) + 304 + LeapDay(y)
  BY <1>1, <1>2, <1>3, <1>4 DEF MonthStart
<1>m11. MonthStart(y, 11) = YearStart(y) + 334 + LeapDay(y)
  BY <1>1, <1>2, <1>3, <1>4 DEF MonthStart
<1> QED
  BY <1>m0, <1>m1, <1>m2, <1>m3, <1>m4, <1>m5, <1>m6, <1>m7, <1>m8, <1>m9, <1>m10, <1>m11

LEMMA MonthLength ==
  ASSUME NEW y \in Int, NEW mon \in 0 .. 11
  PROVE  /\ MonthStart(y, mon) \in Int /\ DaysIn(y, mon) \in 28 .. 31
         /\ YearStart(y) <= MonthStart(y, mon) 
         /\ MonthStart(y, mon) + DaysIn(y, mon) <= YearStart(y + 1)
         /\ \A n \in 0 .. 11 : mon < n => MonthStart(y, mon) + DaysIn(y, mon) <= MonthStart(y, n)
<1>1. YearStart(y) \in Int /\ YearStart(y + 1) = YearStart(y) + 365 + LeapDay(y)
  BY YearLength DEF LeapDay
<1>2. LeapDay(y) \in 0 .. 1
  BY DEF LeapDay
<1>3. DaysIn(y, mon) = IF mon = 1 THEN 28 + LeapDay(y) ELSE IF mon \in { 3, 5, 8, 10 } THEN 30 ELSE 31
  BY DEF DaysIn, LeapDay
<1> QED
  BY <1>1, <1>2, <1>3, MonthTable

(* So every day is in one year and one month.                              *)
LEMMA OneYear ==
  ASSUME NEW y \in Int, NEW z \in Int, y < z
  PROVE  YearStart(y + 1) <= YearStart(z)
BY DEF YearStart

LEMMA YearsApart ==
  ASSUME NEW y \in Int, NEW z \in Int, y <= z
  PROVE  YearStart(z) >= YearStart(y) + 365 * (z - y)
BY DEF YearStart

LEMMA SomeYear ==
  ASSUME NEW guess \in Int, NEW day \in Int, day \in YearStart(guess) .. YearStart(guess + 11) - 1
  PROVE  \E y \in guess .. guess + 10 : day \in YearStart(y) .. YearStart(y + 1) - 1
<1>1. \A k \in 0 .. 11 : YearStart(guess + k) \in Int
  BY YearLength
<1>2. SUFFICES ASSUME \A k \in 0 .. 10 : day >= YearStart(guess + k) => day >= YearStart(guess + k + 1)
               PROVE  FALSE
  <2>1. SUFFICES ASSUME NEW k \in 0 .. 10, day >= YearStart(guess + k), ~(day >= YearStart(guess + k + 1))
                 PROVE  \E y \in guess .. guess + 10 : day \in YearStart(y) .. YearStart(y + 1) - 1
    OBVIOUS
  <2>2. guess + k \in guess .. guess + 10 /\ YearStart(guess + k) \in Int /\ YearStart(guess + k + 1) \in Int
    BY YearLength
  <2> QED
    BY <2>1, <2>2
<1>3. day >= YearStart(guess + 11)
  BY <1>2
<1> QED
  BY <1>1, <1>3

LEMMA SomeMonth ==
  ASSUME NEW y \in Int, NEW day \in YearStart(y) .. YearStart(y + 1) - 1
  PROVE  \E mon \in 0 .. 11 : day \in MonthStart(y, mon) .. MonthStart(y, mon) + DaysIn(y, mon) - 1
<1>1. YearStart(y) \in Int /\ YearStart(y + 1) = YearStart(y) + 365 + LeapDay(y)
  BY YearLength DEF LeapDay
<1>2. LeapDay(y) \in 0 .. 1
  BY DEF LeapDay
<1>3. \A mon \in 0 .. 11 : DaysIn(y, mon) = IF mon = 1 THEN 28 + LeapDay(y) ELSE IF mon \in { 3, 5, 8, 10 } THEN 30 ELSE 31
  BY DEF DaysIn, LeapDay
<1> QED
  BY <1>1, <1>2, <1>3, MonthTable

(* The seconds: those of more than a day are carried over.                  *)
LEMMA Division ==
  ASSUME NEW n \in Int, NEW d \in Int, d > 0
  PROVE  n \div d \in Int /\ n % d \in Int /\ n = (d * (n \div d)) + (n % d) /\ 0 <= n % d /\ n % d < d
BY SMT

LEMMA DayOf ==
  ASSUME NEW n \in Int, 0 <= n, n <= 362439
  PROVE  /\ n \div 86400 \in 0 .. 4 /\ n % 86400 \in Int /\ 0 <= n % 86400 /\ n % 86400 < 86400
         /\ n <= 86399 => n \div 86400 = 0 /\ n % 86400 = n
<1>1. PICK q \in Int, r \in Int : q = n \div 86400 /\ r = n % 86400
  BY SMT
<1>2. n = 86400 * q + r /\ 0 <= r /\ r < 86400
  BY <1>1, Division, SMT
<1>3. q >= 0 /\ q <= 4 /\ (n <= 86399 => q = 0)
  BY <1>2, SMT
<1>5. n <= 86399 => r = n
  BY <1>2, <1>3, SMT
<1> QED
  BY <1>1, <1>2, <1>3, <1>5, SMT

DaySecs == 86400
Secs(h, m, s) == s + 60 * (m + 60 * h)
Clock(h, m, s) == 3600 * h + 60 * m + s

LEMMA Seconds ==
  ASSUME NEW h \in 0 .. 99, NEW m \in 0 .. 99, NEW s \in 0 .. 99
  PROVE  /\ Secs(h, m, s) \in Int
         /\ Secs(h, m, s) \div DaySecs \in 0 .. 4
         /\ Secs(h, m, s) % DaySecs \in Int /\ 0 <= Secs(h, m, s) % DaySecs /\ Secs(h, m, s) % DaySecs < DaySecs
         /\ h <= 23 /\ m <= 59 /\ s <= 59 => Secs(h, m, s) \div DaySecs = 0 /\ Secs(h, m, s) % DaySecs = Clock(h, m, s)
<1> PICK n \in Int : n = Secs(h, m, s)
  BY SMT DEF Secs
<1>1. n = Clock(h, m, s) /\ n >= 0 /\ n <= 362439
  BY SMT DEF Secs, Clock
<1>2. h <= 23 /\ m <= 59 /\ s <= 59 => n <= 86399
  BY <1>1, SMT DEF Clock
<1>3. /\ n \div 86400 \in 0 .. 4 /\ n % 86400 \in Int /\ 0 <= n % 86400 /\ n % 86400 < 86400
      /\ n <= 86399 => n \div 86400 = 0 /\ n % 86400 = n
  BY <1>1, DayOf, SMT
<1> QED
  BY <1>1, <1>2, <1>3, SMT DEF DaySecs

(* And back, from the second of a day to the clock.                         *)
LEMMA SomeClock ==
  ASSUME NEW n \in Int, 0 <= n, n < 86400
  PROVE  n \div 3600 \in 0 .. 23 /\ (n \div 60) % 60 \in 0 .. 59 /\ n % 60 \in 0 .. 59
<1>2. PICK q \in Int, r \in Int : q = n \div 3600 /\ r = n % 3600
  BY SMT
<1>3. n = 3600 * q + r /\ 0 <= r /\ r < 3600
  BY <1>2, Division, SMT
<1>4. 0 <= q /\ q <= 23
  BY <1>3, SMT
<1>5. n % 60 \in 0 .. 59 /\ n \div 60 \in Int
  BY SMT
<1>6. (n \div 60) % 60 \in 0 .. 59
  BY <1>5, SMT
<1> QED
  BY <1>2, <1>4, <1>5, <1>6, SMT

Splits(n, h, m, s) == n \in Int /\ n \div 3600 = h /\ (n \div 60) % 60 = m /\ n % 60 = s

LEMMA ClockOf ==
  ASSUME NEW h \in 0 .. 23, NEW m \in 0 .. 59, NEW s \in 0 .. 59
  PROVE  Splits(Clock(h, m, s), h, m, s)
<1> PICK n \in Int : n = Clock(h, m, s)
  BY SMT DEF Clock
<1>1. n = 60 * (60 * h + m) + s
  BY SMT DEF Clock
<1>2. n \div 60 = 60 * h + m /\ n % 60 = s
  BY <1>1, SMT
<1>3. n \div 3600 = h
  BY <1>1, SMT
<1>4. (60 * h + m) % 60 = m
  BY SMT
<1> QED
  BY <1>2, <1>3, <1>4, SMT DEF Splits

(* Fields as posix_time_parse can find them, the year counted from 0, and   *)
(* those of a date.                                                         *)
Fields(y, mon, mday, h, m, s) ==
  [ tm_year |-> y - 1900, tm_mon |-> mon, tm_mday |-> mday, tm_hour |-> h, tm_min |-> m, tm_sec |-> s ]

IsDate(y, mon, mday, h, m, s) ==
  mon \in 0 .. 11 /\ mday \in 1 .. DaysIn(y, mon) /\ h \in 0 .. 23 /\ m \in 0 .. 59 /\ s \in 0 .. 59

Mons(y, mon) == mon + 12 * y

(* What mktime makes of any fields.                                         *)
TimeOf(y, mon, mday, h, m, s) ==
  [ day |-> MonthStart(Mons(y, mon) \div 12, Mons(y, mon) % 12) + mday - 1 + Secs(h, m, s) \div DaySecs,
    sec |-> Secs(h, m, s) % DaySecs ]

LEMMA MkTimeOf ==
  ASSUME NEW y \in Int, NEW mon \in Months, NEW mday \in Given,
         NEW h \in Given, NEW m \in Given, NEW s \in Given
  PROVE  mktime(Fields(y, mon, mday, h, m, s)) = TimeOf(y, mon, mday, h, m, s)
<1> DEFINE tm == Fields(y, mon, mday, h, m, s)
<1>1. tm.tm_year + 1900 = y
  BY SMT DEF Fields, Given, Months
<1>2. tm.tm_mon = mon /\ tm.tm_mday = mday /\ tm.tm_hour = h /\ tm.tm_min = m /\ tm.tm_sec = s
  BY SMT DEF Fields, Given, Months
<1> HIDE DEF tm
<1>3. mktime(tm) =
        [ day |-> MonthStart((tm.tm_mon + 12 * (tm.tm_year + 1900)) \div 12, (tm.tm_mon + 12 * (tm.tm_year + 1900)) % 12)
                  + tm.tm_mday - 1 + (tm.tm_sec + 60 * (tm.tm_min + 60 * tm.tm_hour)) \div DaySecs,
          sec |-> (tm.tm_sec + 60 * (tm.tm_min + 60 * tm.tm_hour)) % DaySecs ]
  BY SMT DEF mktime, DaySecs, Given, Months
<1>4. mktime(tm) = [ day |-> MonthStart(Mons(y, mon) \div 12, Mons(y, mon) % 12) + mday - 1 + Secs(h, m, s) \div DaySecs,
                     sec |-> Secs(h, m, s) % DaySecs ]
  BY <1>1, <1>2, <1>3, SMT DEF Mons, Secs, Given, Months
<1> QED
  BY <1>4, SMT DEF tm, TimeOf, Given, Months

(* mktime counts the days and the seconds of a date, and puts what is not   *)
(* one into another year, but not far.                                      *)
LEMMA MkTime ==
  ASSUME NEW y \in Int, NEW mon \in 0 .. 11, NEW mday \in 1 .. DaysIn(y, mon),
         NEW h \in 0 .. 23, NEW m \in 0 .. 59, NEW s \in 0 .. 59
  PROVE  mktime(Fields(y, mon, mday, h, m, s)) =
           [ day |-> MonthStart(y, mon) + mday - 1, sec |-> Clock(h, m, s) ]
<1>1. MonthStart(y, mon) \in Int /\ DaysIn(y, mon) \in 28 .. 31
  BY MonthLength
<1>2. y = Mons(y, mon) \div 12 /\ mon = Mons(y, mon) % 12
  BY SMT DEF Mons
<1>3. h \in 0 .. 99 /\ m \in 0 .. 99 /\ s \in 0 .. 99 /\ h <= 23 /\ m <= 59 /\ s <= 59
  OBVIOUS
<1>4. Secs(h, m, s) \div DaySecs = 0 /\ Secs(h, m, s) % DaySecs = Clock(h, m, s)
  BY <1>3, Seconds
<1>5. mday \in 0 .. 99 /\ mon \in -1 .. 98
  BY <1>1
<1>7. mday \in Given /\ mon \in Months /\ h \in Given /\ m \in Given /\ s \in Given
  BY <1>3, <1>5, SMT DEF Given, Months
<1>6. mktime(Fields(y, mon, mday, h, m, s)) = TimeOf(y, mon, mday, h, m, s)
  BY <1>7, MkTimeOf, SMT
<1> QED
  BY <1>1, <1>2, <1>4, <1>5, <1>6, SMT DEF TimeOf

(* A time that localtime finds when it looks from the year guess on.        *)
At(day, sec) == [ day |-> day, sec |-> sec ]
TimeNear(t, guess) ==
  \E day \in Int, sec \in Int :
    /\ day \in YearStart(guess) .. YearStart(guess + 11) - 1
    /\ 0 <= sec /\ sec < DaySecs
    /\ t = At(day, sec)

LEMMA MkTimeNear ==
  ASSUME NEW y \in Int, NEW mon \in Months, NEW mday \in Given, NEW h \in Given, NEW m \in Given, NEW s \in Given
  PROVE  TimeNear(mktime(Fields(y, mon, mday, h, m, s)), y - 1)
<1> PICK guess \in Int : guess = y - 1
  OBVIOUS
<1>0. mon \in -1 .. 98 /\ mday \in 0 .. 99 /\ h \in 0 .. 99 /\ m \in 0 .. 99 /\ s \in 0 .. 99
  BY SMT DEF Given, Months
<1> PICK Y \in Int, M \in 0 .. 11 : Y = Mons(y, mon) \div 12 /\ M = Mons(y, mon) % 12
  BY <1>0, SMT DEF Mons
<1>1. guess <= Y /\ Y <= guess + 9 /\ (Y = guess => M = 11)
  BY <1>0, SMT DEF Mons
<1>2. /\ Secs(h, m, s) \div DaySecs \in 0 .. 4
      /\ Secs(h, m, s) % DaySecs \in Int /\ 0 <= Secs(h, m, s) % DaySecs /\ Secs(h, m, s) % DaySecs < DaySecs
  BY <1>0, Seconds
<1> PICK days \in 0 .. 4, sec \in Int : days = Secs(h, m, s) \div DaySecs /\ sec = Secs(h, m, s) % DaySecs
  BY <1>2, SMT
<1>b. 0 <= sec /\ sec < DaySecs
  BY <1>2
<1>3. mktime(Fields(y, mon, mday, h, m, s)) = [ day |-> MonthStart(Y, M) + mday - 1 + days, sec |-> sec ]
  <2>1. mktime(Fields(y, mon, mday, h, m, s)) = TimeOf(y, mon, mday, h, m, s)
    BY MkTimeOf, SMT
  <2> QED
    BY <2>1, SMT DEF TimeOf
<1> PICK end \in Int : end = guess + 11
  OBVIOUS
<1>4. YearStart(Y) \in Int /\ YearStart(guess) \in Int /\ YearStart(end) \in Int /\ LeapDay(Y) \in 0 .. 1
  BY YearLength DEF LeapDay
<1>5. /\ MonthStart(Y, M) \in Int /\ YearStart(Y) <= MonthStart(Y, M) /\ MonthStart(Y, M) <= YearStart(Y) + 335
      /\ M = 11 => MonthStart(Y, M) > YearStart(Y)
  BY <1>4, MonthTable
<1>6. YearStart(Y) >= YearStart(guess) + 365 * (Y - guess)
  BY <1>1, YearsApart
<1>7. YearStart(end) >= YearStart(Y) + 365 * (end - Y)
  BY <1>1, YearsApart
<1>8. YearStart(end) >= YearStart(Y) + 730 /\ (Y # guess => YearStart(Y) > YearStart(guess)) /\ YearStart(Y) >= YearStart(guess)
  <2> PICK a \in Int, b \in Int, c \in Int : a = YearStart(guess) /\ b = YearStart(Y) /\ c = YearStart(end)
    BY <1>4
  <2>1. b >= a + 365 * (Y - guess) /\ c >= b + 365 * (guess + 11 - Y)
    BY <1>6, <1>7
  <2>2. c >= b + 730 /\ (Y # guess => b > a) /\ b >= a
    BY <1>1, <2>1, SMT
  <2> QED
    BY <2>2
<1> PICK day \in Int : day = MonthStart(Y, M) + mday - 1 + days
  BY <1>0, <1>5, SMT
<1>9. YearStart(guess) <= day /\ day < YearStart(end)
  BY <1>0, <1>1, <1>4, <1>5, <1>8, SMT
<1>10. day \in YearStart(guess) .. YearStart(guess + 11) - 1
  BY <1>4, <1>9, SMT
<1> QED
  BY <1>b, <1>3, <1>10, Zenon DEF TimeNear, At

(* Localtime gives the year, the month and the clock that a time is in.     *)
Near(y, guess) == y \in guess .. guess + 10
InMonth(day, y, mon) ==
  mon \in 0 .. 11 /\ day \in MonthStart(y, mon) .. MonthStart(y, mon) + DaysIn(y, mon) - 1
FieldsAt(day, sec, y, mon) ==
  Fields(y, mon, day - MonthStart(y, mon) + 1, sec \div 3600, (sec \div 60) % 60, sec % 60)

LEMMA LocalTime ==
  ASSUME NEW guess \in Years, NEW y \in Years, NEW mon, NEW day, NEW sec, Near(y, guess), InMonth(day, y, mon)
  PROVE  localtime(At(day, sec), guess) = FieldsAt(day, sec, y, mon)
<1> y \in Int /\ guess \in Int
  BY DEF Years
<1> y \in guess .. guess + 10
  BY DEF Near
<1> mon \in 0 .. 11 /\ day \in MonthStart(y, mon) .. MonthStart(y, mon) + DaysIn(y, mon) - 1
  BY DEF InMonth
<1>m. ASSUME NEW m \in 0 .. 11
      PROVE  /\ MonthStart(y, m) \in Int /\ DaysIn(y, m) \in 28 .. 31
             /\ YearStart(y) <= MonthStart(y, m) /\ MonthStart(y, m) + DaysIn(y, m) <= YearStart(y + 1)
             /\ \A n \in 0 .. 11 : m < n => MonthStart(y, m) + DaysIn(y, m) <= MonthStart(y, n)
  BY MonthLength
<1>y. YearStart(y) \in Int /\ YearStart(y + 1) \in Int
  BY YearLength
<1>1. day \in Int /\ day \in YearStart(y) .. YearStart(y + 1) - 1
  BY <1>m, <1>y
<1>2. ASSUME NEW z \in guess .. guess + 10, day \in YearStart(z) .. YearStart(z + 1) - 1
      PROVE  z = y
  <2>1. z < y => YearStart(z + 1) <= YearStart(y)
    BY OneYear
  <2>2. y < z => YearStart(y + 1) <= YearStart(z)
    BY OneYear
  <2>3. YearStart(y) \in Int /\ YearStart(y + 1) \in Int /\ YearStart(z) \in Int /\ YearStart(z + 1) \in Int
    BY YearLength
  <2> QED
    BY <1>1, <1>2, <2>1, <2>2, <2>3
<1>3. y = CHOOSE z \in guess .. guess + 10 : day \in YearStart(z) .. YearStart(z + 1) - 1
  BY <1>1, <1>2
<1>4. ASSUME NEW m \in 0 .. 11, day \in MonthStart(y, m) .. MonthStart(y, m) + DaysIn(y, m) - 1
      PROVE  m = mon
  <2>1. m < mon => MonthStart(y, m) + DaysIn(y, m) <= MonthStart(y, mon)
    BY <1>m
  <2>2. mon < m => MonthStart(y, mon) + DaysIn(y, mon) <= MonthStart(y, m)
    BY <1>m
  <2>3. MonthStart(y, m) \in Int /\ MonthStart(y, mon) \in Int /\ DaysIn(y, m) \in Int /\ DaysIn(y, mon) \in 28 .. 31
    BY <1>m
  <2> QED
    BY <1>1, <1>4, <2>1, <2>2, <2>3
<1>5. mon = CHOOSE m \in 0 .. 11 : day \in MonthStart(y, m) .. MonthStart(y, m) + DaysIn(y, m) - 1
  BY <1>4
<1> QED
  BY <1>3, <1>5, Zenon DEF localtime, At, FieldsAt, Fields

(* What comes back from localtime is what mktime was given exactly when     *)
(* that was a date.                                                         *)
LEMMA DatesComeBack ==
  ASSUME NEW y \in Int, NEW mon \in 0 .. 11, NEW mday \in 1 .. DaysIn(y, mon),
         NEW h \in 0 .. 23, NEW m \in 0 .. 59, NEW s \in 0 .. 59
  PROVE  localtime(mktime(Fields(y, mon, mday, h, m, s)), y - 1) = Fields(y, mon, mday, h, m, s)
<1>2. MonthStart(y, mon) \in Int /\ DaysIn(y, mon) \in 28 .. 31
  BY MonthLength
<1>5. Clock(h, m, s) \in Int /\ Clock(h, m, s) \div 3600 = h /\ (Clock(h, m, s) \div 60) % 60 = m /\ Clock(h, m, s) % 60 = s
  <2>1. Splits(Clock(h, m, s), h, m, s)
    BY ClockOf
  <2> QED
    BY <2>1, SMT DEF Splits
<1>m. mktime(Fields(y, mon, mday, h, m, s)) = [ day |-> MonthStart(y, mon) + mday - 1, sec |-> Clock(h, m, s) ]
  BY MkTime
<1> PICK guess \in Int : guess = y - 1
  OBVIOUS
<1> PICK day \in Int : day = MonthStart(y, mon) + mday - 1
  BY <1>2
<1> PICK sec \in Int : sec = Clock(h, m, s)
  BY <1>5
<1>3. mktime(Fields(y, mon, mday, h, m, s)) = At(day, sec)
  BY <1>m DEF At
<1>4. Near(y, guess) /\ InMonth(day, y, mon) /\ day - MonthStart(y, mon) + 1 = mday
  BY <1>2 DEF Near, InMonth
<1>6. localtime(At(day, sec), guess) = FieldsAt(day, sec, y, mon)
  BY <1>4, LocalTime DEF Years
<1>7. FieldsAt(day, sec, y, mon) = Fields(y, mon, mday, h, m, s)
  BY <1>4, <1>5, SMT DEF FieldsAt
<1> QED
  BY <1>3, <1>6, <1>7, Zenon

LEMMA OnlyDatesComeBack ==
  ASSUME NEW y \in Int, NEW mon \in Months, NEW mday \in Given, NEW h \in Given, NEW m \in Given, NEW s \in Given,
         localtime(mktime(Fields(y, mon, mday, h, m, s)), y - 1) = Fields(y, mon, mday, h, m, s)
  PROVE  IsDate(y, mon, mday, h, m, s)
<1>0. TimeNear(mktime(Fields(y, mon, mday, h, m, s)), y - 1)
  BY MkTimeNear
<1> PICK guess \in Int : guess = y - 1
  OBVIOUS
<1> PICK day \in Int, sec \in Int :
           /\ day \in YearStart(guess) .. YearStart(guess + 11) - 1
           /\ 0 <= sec /\ sec < DaySecs
           /\ mktime(Fields(y, mon, mday, h, m, s)) = At(day, sec)
  BY <1>0 DEF TimeNear
<1> PICK Y \in Int : Y \in guess .. guess + 10 /\ day \in YearStart(Y) .. YearStart(Y + 1) - 1
  BY SomeYear
<1> PICK M \in 0 .. 11 : day \in MonthStart(Y, M) .. MonthStart(Y, M) + DaysIn(Y, M) - 1
  BY SomeMonth
<1>2. Y \in Years /\ guess \in Years /\ Near(Y, guess) /\ InMonth(day, Y, M)
  BY DEF Years, Near, InMonth
<1>3. localtime(At(day, sec), guess) = FieldsAt(day, sec, Y, M)
  BY <1>2, LocalTime
<1>4. Fields(y, mon, mday, h, m, s) = FieldsAt(day, sec, Y, M)
  BY <1>3, Zenon
<1> DEFINE F == Fields(y, mon, mday, h, m, s)
<1>5. F.tm_year = y - 1900 /\ F.tm_mon = mon /\ F.tm_mday = mday /\ F.tm_hour = h /\ F.tm_min = m /\ F.tm_sec = s
  BY SMT DEF Fields
<1>6. /\ F.tm_year = Y - 1900 /\ F.tm_mon = M /\ F.tm_mday = day - MonthStart(Y, M) + 1
      /\ F.tm_hour = sec \div 3600 /\ F.tm_min = (sec \div 60) % 60 /\ F.tm_sec = sec % 60
  BY <1>4, SMT DEF Fields, FieldsAt
<1> HIDE DEF F
<1>7. y = Y
  BY <1>5, <1>6, SMT
<1>8. sec \div 3600 \in 0 .. 23 /\ (sec \div 60) % 60 \in 0 .. 59 /\ sec % 60 \in 0 .. 59
  BY SomeClock, SMT DEF DaySecs
<1>9. h \in 0 .. 23 /\ m \in 0 .. 59 /\ s \in 0 .. 59
  BY <1>5, <1>6, <1>8, SMT
<1>10. MonthStart(Y, M) \in Int /\ DaysIn(Y, M) \in 28 .. 31
  BY MonthLength
<1>11. day - MonthStart(Y, M) + 1 \in 1 .. DaysIn(Y, M)
  BY <1>10, SMT
<1>12. mon = M /\ mday = day - MonthStart(Y, M) + 1
  BY <1>5, <1>6, SMT
<1> QED
  BY <1>7, <1>9, <1>11, <1>12, Zenon DEF IsDate

(* The days of the calendar, and those counted from the leap years.         *)
LEMMA YearsBefore ==
  ASSUME NEW y \in Int
  PROVE  /\ (y + 3) \div 4 = (y - 1) \div 4 + 1
         /\ (y + 99) \div 100 = (y - 1) \div 100 + 1
         /\ (y + 399) \div 400 = (y - 1) \div 400 + 1
         /\ y \div 4 = (y - 1) \div 4 + (IF y % 4 = 0 THEN 1 ELSE 0)
         /\ y \div 100 = (y - 1) \div 100 + (IF y % 100 = 0 THEN 1 ELSE 0)
         /\ y \div 400 = (y - 1) \div 400 + (IF y % 400 = 0 THEN 1 ELSE 0)
         /\ (y % 400 = 0 => y % 100 = 0) /\ (y % 100 = 0 => y % 4 = 0)
<1>1. (y + 3) \div 4 = (y - 1) \div 4 + 1 /\ y \div 4 = (y - 1) \div 4 + (IF y % 4 = 0 THEN 1 ELSE 0)
  BY SMT
<1>2. (y + 99) \div 100 = (y - 1) \div 100 + 1 /\ y \div 100 = (y - 1) \div 100 + (IF y % 100 = 0 THEN 1 ELSE 0)
  BY SMT
<1>3. (y + 399) \div 400 = (y - 1) \div 400 + 1 /\ y \div 400 = (y - 1) \div 400 + (IF y % 400 = 0 THEN 1 ELSE 0)
  BY SMT
<1>4. (y % 400 = 0 => y % 100 = 0) /\ (y % 100 = 0 => y % 4 = 0)
  BY SMT
<1> QED
  BY <1>1, <1>2, <1>3, <1>4, SMT

Leaps(n) == n \div 4 - n \div 100 + n \div 400

LEMMA LeapsBefore ==
  ASSUME NEW y \in Int
  PROVE  /\ Leaps(y - 1) \in Int /\ YearStart(y) = 365 * y + 1 + Leaps(y - 1)
         /\ Leaps(y) = Leaps(y - 1) + LeapDay(y)
<1>1. /\ (y + 3) \div 4 = (y - 1) \div 4 + 1
      /\ (y + 99) \div 100 = (y - 1) \div 100 + 1
      /\ (y + 399) \div 400 = (y - 1) \div 400 + 1
  BY YearsBefore, SMT
<1>2. YearStart(y) = 365 * y + 1 + Leaps(y - 1)
  BY <1>1, SMT DEF YearStart, Leaps
<1>3. /\ y \div 4 = (y - 1) \div 4 + (IF y % 4 = 0 THEN 1 ELSE 0)
      /\ y \div 100 = (y - 1) \div 100 + (IF y % 100 = 0 THEN 1 ELSE 0)
      /\ y \div 400 = (y - 1) \div 400 + (IF y % 400 = 0 THEN 1 ELSE 0)
      /\ (y % 400 = 0 => y % 100 = 0) /\ (y % 100 = 0 => y % 4 = 0)
  BY YearsBefore, SMT
<1>4. Leaps(y) = Leaps(y - 1) + LeapDay(y)
  BY <1>3, SMT DEF Leaps, LeapDay, Leap
<1> QED
  BY <1>2, <1>4, SMT DEF Leaps

LEMMA Counted ==
  ASSUME NEW m, NEW y \in Int, NEW mon \in 1 .. 12, NEW day \in Int, m.year = y, m.month = mon, m.day = day
  PROVE  DayNumber(m) = MonthStart(y, mon - 1) + day - 1
<1> DEFINE before == << 0, 31, 59, 90, 120, 151, 181, 212, 243, 273, 304, 334 >>
<1>1. DayNumber(m) = 365 * y + 1 + Leaps(IF mon > 2 THEN y ELSE y - 1) + before[mon] + day - 1
  BY SMT DEF DayNumber, Leaps
<1>2. Leaps(y - 1) \in Int /\ YearStart(y) = 365 * y + 1 + Leaps(y - 1) /\ Leaps(y) = Leaps(y - 1) + LeapDay(y)
  BY LeapsBefore, SMT
<1>3. LeapDay(y) \in 0 .. 1 /\ YearStart(y) \in Int
  BY YearLength DEF LeapDay
<1>4. MonthStart(y, mon - 1) = YearStart(y) + before[mon] + (IF mon > 2 THEN LeapDay(y) ELSE 0)
  BY MonthTable, <1>3, SMT
<1>5. before[mon] \in Int
  OBVIOUS
<1> HIDE DEF before
<1> QED
  BY <1>1, <1>2, <1>3, <1>4, <1>5, SMT

(* A year of two digits is the one of the hundred years from 1969.          *)
YearOf(d) == IF d > 68 THEN 1900 + d ELSE 2000 + d

LEMMA TwoDigitYears ==
  ASSUME NEW d \in 0 .. 99
  PROVE  (CHOOSE y \in ShortYears : y % 100 = d) = YearOf(d)
<1> PICK Y \in Int : Y = YearOf(d)
  BY SMT DEF YearOf
<1>1. Y \in ShortYears /\ Y % 100 = d
  BY SMT DEF ShortYears, YearOf
<1>2. \A y \in ShortYears : y % 100 = d => y = Y
  BY SMT DEF ShortYears, YearOf
<1> QED
  BY <1>1, <1>2, SMT

LEMMA YearOfs ==
  ASSUME NEW d \in 0 .. 99
  PROVE  /\ YearOf(d) \in Int
         /\ d > 68 => YearOf(d) < 2000 /\ d = YearOf(d) - 1900
         /\ d <= 68 => ~(YearOf(d) < 2000) /\ d + 100 = YearOf(d) - 1900
BY SMT DEF YearOf

(* A result of year, that means a year in a format.                         *)
MaxYear(bits) == IF "CENTURY" \in bits THEN 2 ELSE 1
Old(y) == y < 2000
RightYear(r, y, given) ==
  y \in Int /\ r = IF given THEN Year(y - 1900) ELSE Bad

LEMMA OnePair ==
  ASSUME NEW d \in 0 .. 99, NEW bits
  PROVE  RightYear(IF d > 68 THEN Year(d) ELSE IF "PRE_2000" \in bits THEN Bad ELSE Year(d + 100),
                   YearOf(d), "PRE_2000" \in bits => Old(YearOf(d)))
<1> PICK y \in Int : y = YearOf(d)
  BY YearOfs, SMT
<1>1. CASE d > 68
  <2>1. Old(y) /\ d = y - 1900
    BY <1>1, YearOfs, SMT DEF Old
  <2> QED
    BY <1>1, <2>1 DEF RightYear
<1>2. CASE d <= 68
  <2>1. ~Old(y) /\ d + 100 = y - 1900 /\ ~(d > 68)
    BY <1>2, YearOfs, SMT DEF Old
  <2> QED
    BY <2>1 DEF RightYear
<1> QED
  BY <1>1, <1>2, SMT

(* What year makes of the digits is the year they give, or nothing when     *)
(* they are too many or the year is not an old one.                         *)
ArePairs(yy) == yy \in Seq(Given) /\ Len(yy) \in 0 .. 2

LEMMA YearRead ==
  ASSUME NEW yy, NEW bits \in Formats, ArePairs(yy)
  PROVE  RightYear(year(yy, bits), GivenYear(yy),
                   /\ Len(yy) <= MaxYear(bits)
                   /\ "PRE_2000" \in bits /\ Len(yy) = 1 => Old(GivenYear(yy)))
<1>e. \A i \in 1 .. Len(yy) : yy[i] \in Given
  BY ElementOfSeq DEF ArePairs
<1>l. Len(yy) # 0 => yy # <<>>
  OBVIOUS
<1>f. "CENTURY" \in bits <=> ~("PRE_2000" \in bits)
  BY DEF Formats
<1>1. CASE Len(yy) = 0
  <2>1. yy = <<>>
    BY <1>1 DEF ArePairs
  <2>p. PICK Y \in Int : Y = ThisYear + 1900
    BY DatesAssumption, SMT
  <2>2. GivenYear(yy) = Y
    BY <2>1, <2>p, SMT DEF GivenYear
  <2>3. ThisYear = Y - 1900
    BY <2>p, DatesAssumption, SMT
  <2>4. Len(yy) <= MaxYear(bits) /\ ~("PRE_2000" \in bits /\ Len(yy) = 1)
    BY <1>1, SMT DEF MaxYear
  <2>5. year(yy, bits) = Year(Y - 1900)
    BY <1>1, <2>3, SMT DEF year
  <2> QED
    BY <2>2, <2>4, <2>5, SMT DEF RightYear
<1>2. CASE Len(yy) = 1
  <2>e. yy[1] \in 0 .. 99
    BY <1>2, <1>e DEF Given
  <2>0. GivenYear(yy) = CHOOSE y \in ShortYears : y % 100 = yy[1]
    BY <1>2, <1>l DEF GivenYear
  <2>1. GivenYear(yy) = YearOf(yy[1])
    BY <2>0, <2>e, TwoDigitYears
  <2>2. year(yy, bits) = IF yy[1] > 68 THEN Year(yy[1]) ELSE IF "PRE_2000" \in bits THEN Bad ELSE Year(yy[1] + 100)
    BY <1>2, SMT DEF year
  <2>3. Len(yy) <= MaxYear(bits)
    BY <1>2, SMT DEF MaxYear
  <2>4. RightYear(year(yy, bits), GivenYear(yy), "PRE_2000" \in bits => Old(GivenYear(yy)))
    BY <2>e, <2>1, <2>2, OnePair, Zenon
  <2> QED
    BY <1>2, <2>3, <2>4, SMT DEF RightYear
<1>3. CASE Len(yy) = 2
  <2>e. yy[1] \in 0 .. 99 /\ yy[2] \in 0 .. 99
    BY <1>3, <1>e DEF Given
  <2>p. PICK a \in 0 .. 99, b \in 0 .. 99 : a = yy[1] /\ b = yy[2]
    BY <2>e
  <2>y. PICK Y \in Int : Y = 100 * a + b
    BY SMT
  <2>1. GivenYear(yy) = Y
    BY <1>3, <1>l, <2>p, <2>y, SMT DEF GivenYear
  <2>5. a * 100 + b - 1900 = Y - 1900
    BY <2>y, SMT
  <2>2. year(yy, bits) = IF "CENTURY" \in bits THEN Year(Y - 1900) ELSE Bad
    BY <1>3, <2>p, <2>5, SMT DEF year
  <2>3. Len(yy) <= MaxYear(bits) <=> "CENTURY" \in bits
    BY <1>3, SMT DEF MaxYear
  <2> QED
    BY <1>3, <2>1, <2>2, <2>3, SMT DEF RightYear
<1>4. Len(yy) = 0 \/ Len(yy) = 1 \/ Len(yy) = 2
  BY DEF ArePairs
<1> QED
  BY <1>1, <1>2, <1>3, <1>4, Zenon

(* The pieces of a string, by where the year is.                            *)
YearLen(s)     == Len(s.pairs) - 4
Leading(bits)  == "LEADING_YEAR" \in bits
YearPart(s, bits) ==
  IF Leading(bits) THEN SubSeq(s.pairs, 1, YearLen(s)) ELSE SubSeq(s.pairs, 5, 4 + YearLen(s))
DatePart(s, bits) ==
  IF Leading(bits) THEN SubSeq(s.pairs, YearLen(s) + 1, YearLen(s) + 4) ELSE SubSeq(s.pairs, 1, 4)
Pair(s, bits, k) == s.pairs[k + IF Leading(bits) THEN YearLen(s) ELSE 0]

(* The pieces are sequences of pairs; the date is four of them.             *)
LEMMA Pieces ==
  ASSUME NEW s \in Digits, NEW bits, YearLen(s) \in 0 .. 2
  PROVE  /\ YearPart(s, bits) \in Seq(Given) /\ Len(YearPart(s, bits)) = YearLen(s)
         /\ \A k \in 1 .. 4 : DatePart(s, bits)[k] = Pair(s, bits, k) /\ Pair(s, bits, k) \in Given
<1> PICK p \in Seq(Given) : p = s.pairs
  BY DEF Digits, Given
<1> PICK n \in 0 .. 2 : n = YearLen(s)
  OBVIOUS
<1>1. Len(p) = n + 4
  BY DEF YearLen
<1>e. \A i \in 1 .. n + 4 : p[i] \in Given
  BY <1>1, ElementOfSeq
<1>s. ASSUME NEW i \in 1 .. 5, NEW j \in 0 .. 6, j <= n + 4
      PROVE  /\ SubSeq(p, i, j) \in Seq(Given) /\ Len(SubSeq(p, i, j)) = IF i <= j THEN j - i + 1 ELSE 0
             /\ \A k \in 1 .. j - i + 1 : SubSeq(p, i, j)[k] = p[i + k - 1]
  <2>1. \A k \in i .. j : p[k] \in Given
    BY <1>e, <1>s
  <2>2. i \in Int /\ j \in Int
    OBVIOUS
  <2>3. /\ SubSeq(p, i, j) \in Seq(Given) /\ Len(SubSeq(p, i, j)) = IF i <= j THEN j - i + 1 ELSE 0
        /\ \A k \in 1 .. j - i + 1 : SubSeq(p, i, j)[k] = p[i + k - 1]
    BY <2>1, <2>2, SubSeqProperties
  <2> QED
    BY <2>3
<1>2. CASE Leading(bits)
  <2>1. YearPart(s, bits) = SubSeq(p, 1, n) /\ DatePart(s, bits) = SubSeq(p, n + 1, n + 4)
    BY <1>2 DEF YearPart, DatePart
  <2>2. \A k \in 1 .. 4 : Pair(s, bits, k) = p[k + n]
    BY <1>2 DEF Pair
  <2>3. SubSeq(p, 1, n) \in Seq(Given) /\ Len(SubSeq(p, 1, n)) = n
    BY <1>s, <1>e
  <2>4. \A k \in 1 .. 4 : SubSeq(p, n + 1, n + 4)[k] = p[k + n] /\ p[k + n] \in Given
    <3> PICK i \in 1 .. 5, j \in 0 .. 6 : i = n + 1 /\ j = n + 4
      OBVIOUS
    <3>0. j <= n + 4
      OBVIOUS
    <3>1. \A k \in 1 .. j - i + 1 : SubSeq(p, i, j)[k] = p[i + k - 1]
      BY <3>0, <1>s, Zenon
    <3>2. /\ SubSeq(p, n + 1, n + 4) = SubSeq(p, i, j) /\ 1 .. j - i + 1 = 1 .. 4
          /\ \A k \in 1 .. 4 : i + k - 1 = k + n /\ k + n \in 1 .. n + 4
      OBVIOUS
    <3>3. ASSUME NEW k \in 1 .. 4
          PROVE  SubSeq(p, n + 1, n + 4)[k] = p[k + n] /\ p[k + n] \in Given
      <4>1. i + k - 1 = k + n /\ k + n \in 1 .. n + 4 /\ k \in 1 .. j - i + 1
        BY <3>2
      <4>2. SubSeq(p, i, j)[k] = p[i + k - 1]
        BY <3>1, <4>1
      <4> QED
        BY <3>2, <1>e, <4>1, <4>2
    <3> QED
      BY <3>3
  <2> QED
    BY <2>1, <2>2, <2>3, <2>4
<1>3. CASE ~Leading(bits)
  <2>1. YearPart(s, bits) = SubSeq(p, 5, 4 + n) /\ DatePart(s, bits) = SubSeq(p, 1, 4)
    BY <1>3 DEF YearPart, DatePart
  <2>2. \A k \in 1 .. 4 : Pair(s, bits, k) = p[k]
    BY <1>3 DEF Pair
  <2>3. SubSeq(p, 5, 4 + n) \in Seq(Given) /\ Len(SubSeq(p, 5, 4 + n)) = n
    BY <1>s, <1>e
  <2>4. \A k \in 1 .. 4 : SubSeq(p, 1, 4)[k] = p[k] /\ p[k] \in Given
    BY <1>s, <1>e
  <2> QED
    BY <2>1, <2>2, <2>3, <2>4
<1> QED
  BY <1>2, <1>3

SecOf(s) == IF s.sec = NoSeconds THEN 0 ELSE s.sec
YearIn(s, bits) == GivenYear(YearPart(s, bits))
FieldsIn(s, bits) ==
  Fields(YearIn(s, bits), Pair(s, bits, 1) - 1, Pair(s, bits, 2), Pair(s, bits, 3), Pair(s, bits, 4), SecOf(s))

(* A string in a format, and one of them that means a time.                 *)
InFormat(s, bits) ==
  /\ YearLen(s) \in 0 .. 2
  /\ s.sec = NoSeconds \/ "SECONDS" \in bits
  /\ YearLen(s) <= MaxYear(bits)
  /\ "PRE_2000" \in bits /\ YearLen(s) = 1 => Old(YearIn(s, bits))
MeansDate(s, bits) ==
  IsDate(YearIn(s, bits), Pair(s, bits, 1) - 1, Pair(s, bits, 2), Pair(s, bits, 3), Pair(s, bits, 4), SecOf(s))

LEMMA YearFound ==
  ASSUME NEW s \in Digits, NEW bits \in Formats, YearLen(s) \in 0 .. 2
  PROVE  RightYear(year(YearPart(s, bits), bits), YearIn(s, bits),
                   /\ YearLen(s) <= MaxYear(bits)
                   /\ "PRE_2000" \in bits /\ YearLen(s) = 1 => Old(YearIn(s, bits)))
<1>1. ArePairs(YearPart(s, bits)) /\ Len(YearPart(s, bits)) = YearLen(s)
  BY Pieces, Zenon DEF ArePairs
<1> QED
  BY <1>1, YearRead, Zenon DEF YearIn

(* posix_time_parse finds the fields of a string that is in the format.     *)
LEMMA Parsed ==
  ASSUME NEW s \in Digits, NEW bits \in Formats
  PROVE  posix_time_parse(s, bits) =
           IF InFormat(s, bits) THEN [ ok |-> TRUE, tm |-> FieldsIn(s, bits) ] ELSE [ ok |-> FALSE ]
<1> DEFINE y == year(YearPart(s, bits), bits)
           p == DatePart(s, bits)
<1>1. posix_time_parse(s, bits) =
        IF \/ Len(s.pairs) \notin 4 .. 6
           \/ s.sec # NoSeconds /\ "SECONDS" \notin bits
           \/ ~y.ok
        THEN [ ok |-> FALSE ]
        ELSE [ ok |-> TRUE,
               tm |-> [ tm_year |-> y.tm_year, tm_mon |-> p[1] - 1, tm_mday |-> p[2], tm_hour |-> p[3],
                        tm_min |-> p[4], tm_sec |-> SecOf(s) ] ]
  BY Zenon DEF posix_time_parse, YearPart, DatePart, YearLen, Leading, SecOf
<1>2. Len(s.pairs) \in 4 .. 6 <=> YearLen(s) \in 0 .. 2
  <2>1. Len(s.pairs) \in Int
    BY DEF Digits
  <2> QED
    BY <2>1 DEF YearLen
<1>3. CASE YearLen(s) \notin 0 .. 2
  BY <1>1, <1>2, <1>3, Zenon DEF InFormat
<1>4. CASE YearLen(s) \in 0 .. 2
  <2>1. RightYear(y, YearIn(s, bits), /\ YearLen(s) <= MaxYear(bits)
                                      /\ "PRE_2000" \in bits /\ YearLen(s) = 1 => Old(YearIn(s, bits)))
    BY <1>4, YearFound
  <2>2. \A k \in 1 .. 4 : p[k] = Pair(s, bits, k)
    BY <1>4, Pieces, Zenon
  <2>3. p[1] = Pair(s, bits, 1) /\ p[2] = Pair(s, bits, 2) /\ p[3] = Pair(s, bits, 3) /\ p[4] = Pair(s, bits, 4)
    BY <2>2
  <2> HIDE DEF y, p
  <2>4. CASE /\ YearLen(s) <= MaxYear(bits)
             /\ "PRE_2000" \in bits /\ YearLen(s) = 1 => Old(YearIn(s, bits))
    <3>1. y.ok /\ y.tm_year = YearIn(s, bits) - 1900
      BY <2>1, <2>4, SMT DEF RightYear, Year
    <3>2. InFormat(s, bits) <=> s.sec = NoSeconds \/ "SECONDS" \in bits
      BY <1>4, <2>4, Zenon DEF InFormat
    <3>3. [ tm_year |-> y.tm_year, tm_mon |-> p[1] - 1, tm_mday |-> p[2], tm_hour |-> p[3],
            tm_min |-> p[4], tm_sec |-> SecOf(s) ] = FieldsIn(s, bits)
      BY <2>3, <3>1 DEF FieldsIn, Fields
    <3>4. ~(Len(s.pairs) \notin 4 .. 6) /\ ~(~y.ok)
      BY <1>2, <1>4, <3>1
    <3> QED
      BY <1>1, <3>2, <3>3, <3>4, Zenon
  <2>5. CASE ~(/\ YearLen(s) <= MaxYear(bits)
               /\ "PRE_2000" \in bits /\ YearLen(s) = 1 => Old(YearIn(s, bits)))
    <3>1. ~y.ok
      BY <2>1, <2>5, SMT DEF RightYear, Bad
    <3> QED
      BY <1>1, <2>5, <3>1, Zenon DEF InFormat
  <2> QED
    BY <2>4, <2>5, Zenon
<1> QED
  BY <1>3, <1>4, Zenon

Date(s, bits) ==
  [ year |-> YearIn(s, bits), month |-> Pair(s, bits, 1), day |-> Pair(s, bits, 2), hour |-> Pair(s, bits, 3),
    min |-> Pair(s, bits, 4), sec |-> SecOf(s) ]

(* A string means one time, and none when it is in no format or is no date. *)
LEMMA MeantOne ==
  ASSUME NEW s \in Digits, NEW bits \in Formats
  PROVE  Meant(s, bits) = IF InFormat(s, bits) /\ MeansDate(s, bits) THEN { Date(s, bits) } ELSE {}
<1> DEFINE Y == YearIn(s, bits)
           P(k) == Pair(s, bits, k)
           Sec  == IF s.sec = NoSeconds THEN {0}
                   ELSE IF "SECONDS" \in bits THEN {s.sec} \cap 0 .. 59 ELSE {}
           Mon  == {P(1)} \cap 1 .. 12
           Hour == {P(3)} \cap 0 .. 23
           Minute  == {P(4)} \cap 0 .. 59
           All  == [ year : {Y}, month : Mon, day : {P(2)}, hour : Hour, min : Minute, sec : Sec ]
           Right(m) == /\ m.day \in 1 .. DaysIn(m.year, m.month - 1)
                       /\ ("PRE_2000" \in bits /\ YearLen(s) = 1) => Old(m.year)
<1>1. Meant(s, bits) = IF YearLen(s) \in 0 .. MaxYear(bits) THEN { m \in All : Right(m) } ELSE {}
  BY Zenon DEF Meant, YearLen, YearPart, Leading, Pair, YearIn, MaxYear, Old
<1>2. YearLen(s) \in 0 .. MaxYear(bits) <=> YearLen(s) \in 0 .. 2 /\ YearLen(s) <= MaxYear(bits)
  <2>1. Len(s.pairs) \in Int
    BY DEF Digits
  <2>2. YearLen(s) \in Int
    BY <2>1 DEF YearLen
  <2>3. MaxYear(bits) = 1 \/ MaxYear(bits) = 2
    BY DEF MaxYear
  <2> QED
    BY <2>2, <2>3, SMT
<1>3. \A x : x \in Sec <=> x = SecOf(s) /\ SecOf(s) \in 0 .. 59 /\ (s.sec = NoSeconds \/ "SECONDS" \in bits)
  <2>1. CASE s.sec = NoSeconds
    <3>1. Sec = {0} /\ SecOf(s) = 0 /\ 0 \in 0 .. 59
      BY <2>1 DEF SecOf
    <3> QED
      BY <2>1, <3>1, Zenon
  <2>2. CASE s.sec # NoSeconds
    <3>1. Sec = (IF "SECONDS" \in bits THEN {s.sec} \cap 0 .. 59 ELSE {}) /\ SecOf(s) = s.sec
      BY <2>2 DEF SecOf
    <3> HIDE DEF Sec
    <3> QED
      BY <2>2, <3>1, Zenon
  <2> QED
    BY <2>1, <2>2, Zenon
<1>4. ASSUME YearLen(s) \in 0 .. MaxYear(bits)
      PROVE  { m \in All : Right(m) } = IF InFormat(s, bits) /\ MeansDate(s, bits) THEN { Date(s, bits) } ELSE {}
  <2>1. ASSUME NEW m \in All, Right(m)
        PROVE  m = Date(s, bits) /\ InFormat(s, bits) /\ MeansDate(s, bits)
    <3>1. m = [ year |-> m.year, month |-> m.month, day |-> m.day, hour |-> m.hour, min |-> m.min, sec |-> m.sec ]
      BY <2>1
    <3>2. /\ m.year = Y /\ m.month = P(1) /\ m.day = P(2) /\ m.hour = P(3) /\ m.min = P(4) /\ m.sec \in Sec
          /\ P(1) \in 1 .. 12 /\ P(3) \in 0 .. 23 /\ P(4) \in 0 .. 59
      BY <2>1
    <3>3. m.sec = SecOf(s) /\ SecOf(s) \in 0 .. 59 /\ (s.sec = NoSeconds \/ "SECONDS" \in bits)
      BY <1>3, <3>2
    <3> HIDE DEF Y, P, Sec
    <3>4. P(2) \in 1 .. DaysIn(Y, P(1) - 1) /\ (("PRE_2000" \in bits /\ YearLen(s) = 1) => Old(Y))
      BY <2>1, <3>2
    <3>5. P(1) - 1 \in 0 .. 11
      BY <3>2
    <3>6. m = Date(s, bits)
      BY <3>1, <3>2, <3>3, Zenon DEF Date, Y, P
    <3>7. MeansDate(s, bits)
      BY <3>2, <3>3, <3>4, <3>5, Zenon DEF MeansDate, IsDate, Y, P
    <3>8. InFormat(s, bits)
      BY <1>2, <1>4, <3>3, <3>4, Zenon DEF InFormat, Y
    <3> QED
      BY <3>6, <3>7, <3>8
  <2>2. ASSUME InFormat(s, bits), MeansDate(s, bits)
        PROVE  Date(s, bits) \in All /\ Right(Date(s, bits))
    <3>1. /\ P(1) - 1 \in 0 .. 11 /\ P(2) \in 1 .. DaysIn(Y, P(1) - 1)
          /\ P(3) \in 0 .. 23 /\ P(4) \in 0 .. 59 /\ SecOf(s) \in 0 .. 59
      BY <2>2, Zenon DEF MeansDate, IsDate
    <3>2. P(1) \in Given
      BY <1>4, <1>2, Pieces
    <3>3. P(1) \in 1 .. 12
      BY <3>1, <3>2, SMT DEF Given
    <3>4. SecOf(s) \in Sec
      BY <1>3, <2>2, <3>1, Zenon DEF InFormat
    <3>5. ("PRE_2000" \in bits /\ YearLen(s) = 1) => Old(Y)
      BY <2>2, Zenon DEF InFormat
    <3> HIDE DEF Y, P, Sec
    <3>6. Date(s, bits) = [ year |-> Y, month |-> P(1), day |-> P(2), hour |-> P(3), min |-> P(4), sec |-> SecOf(s) ]
      BY Zenon DEF Date, Y, P
    <3>a. P(1) \in Mon /\ P(3) \in Hour /\ P(4) \in Minute
      BY <3>1, <3>3
    <3> HIDE DEF Mon, Hour, Minute
    <3>7. Date(s, bits) \in All
      BY <3>4, <3>6, <3>a
    <3>8. Date(s, bits).year = Y /\ Date(s, bits).month = P(1) /\ Date(s, bits).day = P(2)
      BY <3>6
    <3> QED
      BY <3>1, <3>5, <3>7, <3>8, Zenon
  <2> HIDE DEF All, Right
  <2>3. CASE InFormat(s, bits) /\ MeansDate(s, bits)
    BY <2>1, <2>2, <2>3, Zenon
  <2>4. CASE ~(InFormat(s, bits) /\ MeansDate(s, bits))
    BY <2>1, <2>4, Zenon
  <2> QED
    BY <2>3, <2>4, Zenon
<1>5. ASSUME YearLen(s) \notin 0 .. MaxYear(bits)
      PROVE  ~InFormat(s, bits)
  BY <1>2, <1>5, Zenon DEF InFormat
<1> HIDE DEF All, Right
<1> QED
  BY <1>1, <1>4, <1>5, Zenon

(* Of those, posixtime lets a date through and nothing else.                *)
LEMMA TimeRead ==
  ASSUME NEW s \in Digits, NEW bits \in Formats, InFormat(s, bits)
  PROVE  posixtime(s, bits) =
           IF MeansDate(s, bits) THEN [ ok |-> TRUE, t |-> mktime(FieldsIn(s, bits)) ] ELSE [ ok |-> FALSE ]
<1> DEFINE y == YearIn(s, bits)
           P(k) == Pair(s, bits, k)
           mon == P(1) - 1
           sec == SecOf(s)
           F   == FieldsIn(s, bits)
<1>1. posix_time_parse(s, bits) = [ ok |-> TRUE, tm |-> F ]
  BY Parsed, Zenon
<1>2. YearLen(s) \in 0 .. 2
  BY Zenon DEF InFormat
<1>3. y \in Int
  BY <1>2, YearFound, Zenon DEF RightYear
<1>4. P(1) \in Given /\ P(2) \in Given /\ P(3) \in Given /\ P(4) \in Given
  BY <1>2, Pieces
<1>5. sec \in Given
  <2>1. s.sec \in 0 .. 99 \cup { NoSeconds }
    BY DEF Digits
  <2> QED
    BY <2>1 DEF SecOf, Given
<1>6. mon \in Months
  BY <1>4, SMT DEF Given, Months
<1>7. F = Fields(y, mon, P(2), P(3), P(4), sec)
  BY Zenon DEF FieldsIn
<1>8. MeansDate(s, bits) <=> IsDate(y, mon, P(2), P(3), P(4), sec)
  BY Zenon DEF MeansDate
<1> HIDE DEF y, P, mon, sec, F
<1>9. F.tm_year + 1899 = y - 1
  <2>1. F.tm_year = y - 1900
    BY <1>7, SMT DEF Fields
  <2> QED
    BY <2>1, <1>3, SMT
<1>10. posixtime(s, bits) = IF localtime(mktime(F), y - 1) = F THEN [ ok |-> TRUE, t |-> mktime(F) ] ELSE [ ok |-> FALSE ]
  BY <1>1, <1>9 DEF posixtime
<1>11. localtime(mktime(F), y - 1) = F <=> MeansDate(s, bits)
  <2>1. ASSUME IsDate(y, mon, P(2), P(3), P(4), sec) PROVE localtime(mktime(F), y - 1) = F
    <3>1. mon \in 0 .. 11 /\ P(2) \in 1 .. DaysIn(y, mon) /\ P(3) \in 0 .. 23 /\ P(4) \in 0 .. 59 /\ sec \in 0 .. 59
      BY <2>1, Zenon DEF IsDate
    <3> QED
      BY <1>3, <1>7, <3>1, DatesComeBack
  <2>2. ASSUME localtime(mktime(F), y - 1) = F PROVE IsDate(y, mon, P(2), P(3), P(4), sec)
    BY <1>3, <1>4, <1>5, <1>6, <1>7, <2>2, OnlyDatesComeBack
  <2> QED
    BY <1>8, <2>1, <2>2, Zenon
<1> QED
  BY <1>10, <1>11, Zenon DEF F

DateTime(y, mon, mday, h, m, s) == [ day |-> MonthStart(y, mon) + mday - 1, sec |-> Clock(h, m, s) ]

LEMMA MkTimeDate ==
  ASSUME NEW y \in Int, NEW mon \in 0 .. 11, NEW mday \in 1 .. DaysIn(y, mon),
         NEW h \in 0 .. 23, NEW m \in 0 .. 59, NEW s \in 0 .. 59
  PROVE  mktime(Fields(y, mon, mday, h, m, s)) = DateTime(y, mon, mday, h, m, s)
BY MkTime DEF DateTime

(* The answer is the one time that a string means, or none.                 *)
LEMMA ReadRight ==
  ASSUME NEW s \in Digits, NEW bits \in Formats, answer = posixtime(s, bits)
  PROVE  ReadAsMeant(Meant(s, bits))
<1>1. CASE ~InFormat(s, bits)
  <2>1. posix_time_parse(s, bits) = [ ok |-> FALSE ]
    BY <1>1, Parsed, Zenon
  <2>2. posixtime(s, bits) = [ ok |-> FALSE ]
    BY <2>1, SMT DEF posixtime
  <2>3. Meant(s, bits) = {}
    BY <1>1, MeantOne, Zenon
  <2> QED
    BY <2>2, <2>3, SMT DEF ReadAsMeant
<1>2. CASE InFormat(s, bits) /\ ~MeansDate(s, bits)
  <2>1. posixtime(s, bits) = [ ok |-> FALSE ]
    BY <1>2, TimeRead, Zenon
  <2>2. Meant(s, bits) = {}
    BY <1>2, MeantOne, Zenon
  <2> QED
    BY <2>1, <2>2, SMT DEF ReadAsMeant
<1>3. CASE InFormat(s, bits) /\ MeansDate(s, bits)
  <2> DEFINE y == YearIn(s, bits)
             P(k) == Pair(s, bits, k)
             mon == P(1) - 1
             sec == SecOf(s)
             m   == Date(s, bits)
  <2>1. posixtime(s, bits) = [ ok |-> TRUE, t |-> mktime(FieldsIn(s, bits)) ]
    BY <1>3, TimeRead, Zenon
  <2>2. Meant(s, bits) = { m }
    BY <1>3, MeantOne, Zenon
  <2>3. YearLen(s) \in 0 .. 2
    BY <1>3, Zenon DEF InFormat
  <2>4. y \in Int
    BY <2>3, YearFound, Zenon DEF RightYear
  <2>5. mon \in 0 .. 11 /\ P(2) \in 1 .. DaysIn(y, mon) /\ P(3) \in 0 .. 23 /\ P(4) \in 0 .. 59 /\ sec \in 0 .. 59
    BY <1>3, Zenon DEF MeansDate, IsDate
  <2>6. P(1) \in Given
    BY <2>3, Pieces
  <2>7. m.year = y /\ m.month = P(1) /\ m.day = P(2) /\ m.hour = P(3) /\ m.min = P(4) /\ m.sec = sec
    BY DEF Date
  <2>8. FieldsIn(s, bits) = Fields(y, mon, P(2), P(3), P(4), sec)
    BY Zenon DEF FieldsIn
  <2>9. P(1) \in 1 .. 12 /\ P(2) \in Int
    BY <2>5, <2>6, SMT DEF Given
  <2> HIDE DEF y, P, sec, m
  <2>10. mktime(FieldsIn(s, bits)) = DateTime(y, mon, P(2), P(3), P(4), sec)
    <3> HIDE DEF mon
    <3> QED
      BY <2>4, <2>5, <2>8, MkTimeDate
  <2>11. DayNumber(m) = MonthStart(y, mon) + P(2) - 1
    BY <2>4, <2>7, <2>9, Counted
  <2>12. 3600 * m.hour + 60 * m.min + m.sec = Clock(P(3), P(4), sec)
    BY <2>7 DEF Clock
  <2> DEFINE t == [ day |-> DayNumber(m), sec |-> 3600 * m.hour + 60 * m.min + m.sec ]
  <2>13. DateTime(y, mon, P(2), P(3), P(4), sec) = t
    BY <2>11, <2>12 DEF DateTime
  <2> HIDE DEF t, mon
  <2>14. answer = [ ok |-> TRUE, t |-> t ]
    BY <2>1, <2>10, <2>13, Zenon
  <2> QED
    BY <2>2, <2>14 DEF ReadAsMeant, t
<1> QED
  BY <1>1, <1>2, <1>3, Zenon

(* What is a time in one of the formats of POSIX is read by posixtime as    *)
(* that time, and nothing else is, for all digits and in every year.        *)
THEOREM DatesReadAsMeantHolds == DateSpec => []DatesReadAsMeant
<1> DEFINE DateInv == date \in Dates /\ (answer # NotRead => answer = posixtime(date.s, date.bits))
<1>1. DateInit => DateInv
  BY DEF DateInit
<1>2. DateInv /\ [DateNext]_dvars => DateInv'
  BY Zenon DEF DateNext, Posixtime, dvars
<1>3. DateInv => DatesReadAsMeant
  <2> SUFFICES ASSUME DateInv, answer # NotRead PROVE ReadAsMeant(Meant(date.s, date.bits))
    BY DEF DatesReadAsMeant
  <2>1. date.s \in Digits /\ date.bits \in Formats
    BY DatesAssumption
  <2> QED
    BY <2>1, ReadRight
<1> QED
  BY <1>1, <1>2, <1>3, PTL DEF DateSpec

=============================================================================
