--------------------------- MODULE GitProxyProofs ---------------------------
(***************************************************************************)
(* Proofs about oe-git-proxy-socks for every set of command lines, every   *)
(* number of header lines, and buffers of every size: how a connection is  *)
(* made, and what the relay makes of the bytes.                            *)
(***************************************************************************)
EXTENDS GitProxy, Integers, TLAPS

Relaying == { "relay", "accept_again" }

-----------------------------------------------------------------------------
(* The inductive invariant of the negotiation, in parts.                    *)

(* The program waits for an answer of the proxy it was told of, and comes   *)
(* to the relay by a good one.                                              *)
StageInv ==
  /\ pc \in { "socks5_method", "socks5_userpass", "socks5_reply", "socks5_bound" } =>
       opts.method = "socks5"
  /\ pc = "socks4_reply" => opts.method = "socks4"
  /\ pc \in { "http_status" } \cup HeaderLoops => opts.method = "http"
  /\ pc = "telnet" => opts.method = "telnet"
  /\ pc = "http_200" => answer = "200"
  /\ pc = "socks5_bound" => answer \in AddressTypes /\ unread = BoundAddress(answer)
  /\ pc \notin Ended \cup { "socks5_bound" } =>
       unread = 0 \/ (pc \in Relaying /\ answer = "unknown")
  /\ RelayGranted

(* One connection at most.                                                  *)
SocketInv ==
  /\ sockets <= 1
  /\ pc \in { "accept", "connect" } => sockets = 0
  /\ pc \in Waiting \cup Relaying => sockets = 1

(* The password is erased only once it was sent, and a proxy that was sent  *)
(* it is asked again only after a redirection.                              *)
PasswordInv ==
  /\ password = "erased" => opts.method \in { "socks5", "http" }
  /\ opts.method = "socks5" /\ pc \in { "accept", "connect", "socks5_method" } => password = "real"
  /\ opts.method = "http" /\ password = "erased" => proxy_auth
  /\ (opts.method = "http" /\ password = "erased" /\ ~redirected) =>
       pc \notin { "accept", "connect", "http_auth", "http_302" }
  /\ proxy_auth => opts.method = "http"
  /\ RealPassword

(* A connection is made for the first request or a redirection, and once    *)
(* for a challenge.                                                         *)
Challenges == IF proxy_auth THEN 1 ELSE 0

AskInv ==
  /\ pc = "accept" => asked = 0
  /\ pc \in { "connect", "http_302" } => asked <= Challenges
  /\ pc \in { "http_status", "http_200" } => asked <= Challenges + 1
  /\ pc = "http_auth" => asked <= 1
  /\ AskedTwice

NegotiationInv ==
  /\ NegotiationTypeOK /\ StageInv /\ SocketInv /\ PasswordInv /\ AskInv /\ AlarmInNegotiation

-----------------------------------------------------------------------------
(* The inductive invariant of the relay.                                    *)

Sequence(s) == Len(s) \in Nat /\ s \in Seq({ s[i] : i \in 1 .. Len(s) })

(* What has been read from the local side is in lbuf or was sent on.        *)
Outward ==
  /\ (opts.local # "hold" /\ ~remote.closed) => Len(toRemote) + Len(lbuf) = local.read
  /\ ~damaged => InOrder(toRemote)
  /\ (~damaged /\ ~remote.closed) =>
       /\ Len(toRemote) + Len(lbuf) = local.read
       /\ \A i \in 1 .. Len(lbuf) : lbuf[i] = Len(toRemote) + i
  /\ pc = "accept" => lbuf = <<>>

(* As long as each write takes all of rbuf, nothing stays in it.            *)
Inward ==
  /\ ~torn => InOrder(toLocal)
  /\ (~torn /\ pc # "killed") => rbuf = <<>> /\ Len(toLocal) = remote.read

(* The relay ends with the end of the destination, or is held.              *)
EndInv ==
  /\ pc = "accept_again" => opts.local = "hold"
  /\ (opts.local # "hold" /\ (~f_remote \/ (pc = "done" /\ asked > 0))) =>
       remote.closed /\ remote.read = remote.written
  /\ opts.local = "hold" => ~shut

RelayInv ==
  /\ TypeOK
  /\ Sequence(lbuf) /\ Sequence(rbuf) /\ Sequence(toRemote) /\ Sequence(toLocal)
  /\ Outward /\ Inward /\ EndInv

IInv == NegotiationInv /\ RelayInv

-----------------------------------------------------------------------------
(* The negotiation keeps its invariant.                                     *)

OptionTypes ==
  /\ opts.timeout \in Nat /\ opts.bytes \in Nat /\ opts.method \in Methods
  /\ MaxHeaders \in Nat

LEMMA OptionsTyped == NegotiationTypeOK => OptionTypes
BY NegotiationAssumption DEF NegotiationTypeOK, OptionTypes, OptionRecord

(* All of a SOCKS 5 reply is read, but for an address of unknown type.      *)
LEMMA Addresses ==
  ASSUME NEW atyp \in AddressTypes
  PROVE  /\ BoundAddress(atyp) - BoundRead(atyp) = IF atyp = "unknown" THEN 2 ELSE 0
         /\ BoundAddress(atyp) \in Nat
<1>1. CASE atyp = "ipv4"
  <2>1. BoundAddress(atyp) = 4 + 2 /\ BoundRead(atyp) = 4 + 2
    BY <1>1, Zenon DEF BoundAddress, BoundRead
  <2> QED
    BY <1>1, <2>1
<1>2. CASE atyp = "name"
  <2>1. BoundAddress(atyp) = 1 + NameLength + 2 /\ BoundRead(atyp) = 1 + (NameLength + 2)
    BY <1>2, Zenon DEF BoundAddress, BoundRead
  <2> QED
    BY <1>2, <2>1 DEF NameLength
<1>3. CASE atyp = "ipv6"
  <2>1. BoundAddress(atyp) = 16 + 2 /\ BoundRead(atyp) = 16 + 2
    BY <1>3, Zenon DEF BoundAddress, BoundRead
  <2> QED
    BY <1>3, <2>1
<1>4. CASE atyp = "unknown"
  <2>1. BoundAddress(atyp) = 2 /\ BoundRead(atyp) = 0
    BY <1>4, Zenon DEF BoundAddress, BoundRead
  <2> QED
    BY <1>4, <2>1
<1> QED
  BY <1>1, <1>2, <1>3, <1>4 DEF AddressTypes

(* What follows a status line of the proxy.                                 *)
HttpAnswered(status) ==
  /\ answer' = status
  /\ redirected' = (redirected \/ status = "302")
  /\ asked' = IF status = "302" THEN 0 ELSE asked
  /\ pc' = CASE status = "200" -> "http_200"
             [] status = "302" -> "http_302"
             [] status \in { "401", "407" } -> IF proxy_auth THEN "fatal" ELSE "http_auth"
             [] OTHER -> "fatal"

(* A step of the negotiation begins and ends outside the relay's own places. *)
Negotiating ==
  /\ opts' = opts
  /\ pc \in { "connect" } \cup Waiting
  /\ pc' \notin { "accept", "accept_again", "done", "killed" }

LEMMA ConnectStep == NegotiationInv /\ Connect => NegotiationInv' /\ Negotiating
<1> SUFFICES ASSUME NegotiationInv, Connect PROVE NegotiationInv' /\ Negotiating
  OBVIOUS
<1>1. OptionTypes
  BY OptionsTyped DEF NegotiationInv
<1>2. /\ pc = "connect" /\ asked' = asked + 1
      /\ UNCHANGED <<opts, proxy_auth, relay_lost, redirected, answer, unread, lines>>
      /\ sockets' \in {sockets, sockets + 1} /\ timer' \in {0, opts.timeout}
      /\ dest_addr' \in BOOLEAN /\ peer' \in { peer, "speaks" }
      /\ \/ pc' \in { "fatal", "timed_out" } /\ UNCHANGED <<password, sent>>
         \/ /\ sockets' = sockets + 1
            /\ \/ pc' = "relay" /\ opts.method = "direct" /\ timer' = 0
               \/ pc' = FirstWait /\ opts.method # "direct" /\ timer' = opts.timeout
            /\ IF opts.method = "http" /\ proxy_auth
               THEN SendPassword ELSE UNCHANGED <<password, sent>>
  <2>1. /\ pc = "connect" /\ asked' = asked + 1
        /\ UNCHANGED <<opts, proxy_auth, relay_lost, redirected, answer, unread, lines>>
        /\ sockets' \in {sockets, sockets + 1} /\ timer' \in {0, opts.timeout}
    BY DEF Connect, ArmTimer, ClearTimer, NegotiationInv, NegotiationTypeOK
  <2>2. dest_addr' \in BOOLEAN /\ peer' \in { peer, "speaks" }
    BY DEF Connect, NegotiationInv, NegotiationTypeOK
  <2>3. \/ pc' \in { "fatal", "timed_out" } /\ UNCHANGED <<password, sent>>
        \/ /\ sockets' = sockets + 1
           /\ \/ pc' = "relay" /\ opts.method = "direct" /\ timer' = 0
              \/ pc' = FirstWait /\ opts.method # "direct" /\ timer' = opts.timeout
           /\ IF opts.method = "http" /\ proxy_auth
              THEN SendPassword ELSE UNCHANGED <<password, sent>>
    BY DEF Connect, Fatal, ArmTimer, ClearTimer
  <2> QED
    BY <2>1, <2>2, <2>3
<1>3. opts.method # "direct" =>
         FirstWait \in Waiting /\ (opts.method = "socks5" => FirstWait = "socks5_method")
         /\ (opts.method = "socks4" => FirstWait = "socks4_reply")
         /\ (opts.method = "http" => FirstWait = "http_status")
         /\ (opts.method = "telnet" => FirstWait = "telnet")
  <2>1. /\ opts.method = "socks5" => FirstWait = "socks5_method"
        /\ opts.method = "socks4" => FirstWait = "socks4_reply"
        /\ opts.method = "http" => FirstWait = "http_status"
        /\ opts.method = "telnet" => FirstWait = "telnet"
    BY Zenon DEF FirstWait
  <2> QED
    BY <1>1, <2>1 DEF OptionTypes, Methods, Waiting
<1>4. NegotiationTypeOK'
  BY <1>1, <1>2, <1>3 DEF OptionTypes, NegotiationInv, NegotiationTypeOK, Waiting, HeaderLoops, Ended, SocketInv, SendPassword, AddressTypes
<1>5. StageInv'
  BY <1>1, <1>2, <1>3 DEF OptionTypes, NegotiationInv, StageInv, RelayGranted, Granted, Relaying, Waiting, HeaderLoops, Ended, Methods
<1>6. SocketInv'
  BY <1>1, <1>2, <1>3 DEF NegotiationInv, SocketInv, Relaying, Waiting, HeaderLoops, Ended
<1>7. PasswordInv'
  BY <1>1, <1>2, <1>3 DEF OptionTypes, NegotiationInv, NegotiationTypeOK, PasswordInv, RealPassword, StageInv, HeaderLoops, Waiting, SendPassword
<1>8. AskInv'
  <2>1. pc' \in Ended \cup Waiting \cup Relaying /\ pc' \notin HeaderLoops
    <3>1. FirstWait \in { "socks5_method", "socks4_reply", "http_status", "telnet" } \/ opts.method = "direct"
      BY <1>1, <1>3 DEF OptionTypes, Methods
    <3> QED
      BY <1>2, <3>1 DEF Ended, Waiting, Relaying, HeaderLoops
  <2>2. asked' \in Nat /\ asked' <= Challenges + 1 /\ Challenges \in 0 .. 1
    BY <1>1, <1>2 DEF OptionTypes, NegotiationInv, NegotiationTypeOK, AskInv, Challenges
  <2>3. Challenges' = Challenges /\ redirected' = redirected
    BY <1>2 DEF Challenges
  <2> QED
    BY <2>1, <2>2, <2>3 DEF AskInv, AskedTwice, Ended, Waiting, Relaying, HeaderLoops
<1>9. AlarmInNegotiation'
  BY <1>1, <1>2, <1>3 DEF OptionTypes, NegotiationInv, NegotiationTypeOK, AlarmInNegotiation, Waiting, HeaderLoops, Ended
<1>10. Negotiating
  BY <1>1, <1>2, <1>3 DEF OptionTypes, Negotiating, Waiting, HeaderLoops, Methods
<1> QED
  BY <1>4, <1>5, <1>6, <1>7, <1>8, <1>9, <1>10 DEF NegotiationInv

LEMMA Socks5MethodStep == NegotiationInv /\ Socks5Method => NegotiationInv' /\ Negotiating
<1> SUFFICES ASSUME NegotiationInv, Socks5Method PROVE NegotiationInv' /\ Negotiating
  OBVIOUS
<1>1. OptionTypes
  BY OptionsTyped DEF NegotiationInv
<1>2. /\ pc = "socks5_method"
      /\ UNCHANGED <<opts, dest_addr, peer, asked, timer, proxy_auth, relay_lost, sockets, redirected, unread, lines>>
      /\ \/ pc' \in { "socks5_reply", "fatal" } /\ UNCHANGED <<password, sent>>
         \/ pc' = "socks5_userpass" /\ SendPassword
  BY Zenon DEF Socks5Method, Fatal, Unmoved
<1>4. NegotiationTypeOK'
  BY <1>1, <1>2 DEF OptionTypes, NegotiationInv, NegotiationTypeOK, Waiting, HeaderLoops, Ended, SocketInv, SendPassword, AddressTypes
<1>5. StageInv'
  BY <1>1, <1>2 DEF OptionTypes, NegotiationInv, StageInv, RelayGranted, Granted, Relaying, Waiting, HeaderLoops, Ended, Methods
<1>6. SocketInv'
  BY <1>1, <1>2 DEF NegotiationInv, SocketInv, Relaying, Waiting, HeaderLoops, Ended
<1>7. PasswordInv'
  BY <1>1, <1>2 DEF OptionTypes, NegotiationInv, NegotiationTypeOK, PasswordInv, RealPassword, StageInv, HeaderLoops, Waiting, SendPassword
<1>8. AskInv'
  BY <1>1, <1>2 DEF OptionTypes, NegotiationInv, NegotiationTypeOK, AskInv, AskedTwice, Challenges, HeaderLoops, Waiting, StageInv
<1>9. AlarmInNegotiation'
  BY <1>1, <1>2 DEF OptionTypes, NegotiationInv, NegotiationTypeOK, AlarmInNegotiation, Waiting, HeaderLoops, Ended
<1>10. Negotiating
  BY <1>1, <1>2 DEF OptionTypes, Negotiating, Waiting, HeaderLoops, Methods
<1> QED
  BY <1>4, <1>5, <1>6, <1>7, <1>8, <1>9, <1>10 DEF NegotiationInv

LEMMA Socks5UserPassStep == NegotiationInv /\ Socks5UserPass => NegotiationInv' /\ Negotiating
<1> SUFFICES ASSUME NegotiationInv, Socks5UserPass PROVE NegotiationInv' /\ Negotiating
  OBVIOUS
<1>1. OptionTypes
  BY OptionsTyped DEF NegotiationInv
<1>2. /\ pc = "socks5_userpass" /\ pc' \in { "socks5_reply", "fatal" }
      /\ UNCHANGED <<opts, dest_addr, peer, asked, timer, proxy_auth, relay_lost, password,
                     sent, sockets, redirected, answer, unread, lines>>
  BY DEF Socks5UserPass, Fatal, Unmoved
<1>4. NegotiationTypeOK'
  BY <1>1, <1>2 DEF OptionTypes, NegotiationInv, NegotiationTypeOK, Waiting, HeaderLoops, Ended, SocketInv, AddressTypes
<1>5. StageInv'
  BY <1>1, <1>2 DEF OptionTypes, NegotiationInv, StageInv, RelayGranted, Granted, Relaying, Waiting, HeaderLoops, Ended, Methods
<1>6. SocketInv'
  BY <1>1, <1>2 DEF NegotiationInv, SocketInv, Relaying, Waiting, HeaderLoops, Ended
<1>7. PasswordInv'
  BY <1>1, <1>2 DEF OptionTypes, NegotiationInv, NegotiationTypeOK, PasswordInv, RealPassword, StageInv, HeaderLoops, Waiting
<1>8. AskInv'
  BY <1>1, <1>2 DEF OptionTypes, NegotiationInv, NegotiationTypeOK, AskInv, AskedTwice, Challenges, HeaderLoops, Waiting, StageInv
<1>9. AlarmInNegotiation'
  BY <1>1, <1>2 DEF OptionTypes, NegotiationInv, NegotiationTypeOK, AlarmInNegotiation, Waiting, HeaderLoops, Ended
<1>10. Negotiating
  BY <1>1, <1>2 DEF OptionTypes, Negotiating, Waiting, HeaderLoops, Methods
<1> QED
  BY <1>4, <1>5, <1>6, <1>7, <1>8, <1>9, <1>10 DEF NegotiationInv

LEMMA Socks5ReplyStep == NegotiationInv /\ Socks5Reply => NegotiationInv' /\ Negotiating
<1> SUFFICES ASSUME NegotiationInv, Socks5Reply PROVE NegotiationInv' /\ Negotiating
  OBVIOUS
<1>1. OptionTypes
  BY OptionsTyped DEF NegotiationInv
<1>2. /\ pc = "socks5_reply"
      /\ UNCHANGED <<opts, dest_addr, peer, asked, timer, proxy_auth, relay_lost, password,
                     sent, sockets, redirected, lines>>
      /\ \/ pc' = "fatal" /\ unread' = unread
         \/ pc' = "socks5_bound" /\ answer' \in AddressTypes /\ unread' = BoundAddress(answer')
  BY Zenon DEF Socks5Reply, Fatal, Unmoved
<1>3. /\ BoundAddress(answer') = BoundAddress(answer)'
      /\ answer' \in AddressTypes => BoundAddress(answer') \in Nat
  <2>1. BoundAddress(answer') = BoundAddress(answer)'
    BY DEF BoundAddress
  <2> QED
    BY <2>1, Addresses
<1>4. NegotiationTypeOK'
  BY <1>1, <1>2, <1>3 DEF OptionTypes, NegotiationInv, NegotiationTypeOK, Waiting, HeaderLoops, Ended, SocketInv, AddressTypes
<1>5. StageInv'
  BY <1>1, <1>2, <1>3 DEF OptionTypes, NegotiationInv, StageInv, RelayGranted, Granted, Relaying, Waiting, HeaderLoops, Ended, Methods
<1>6. SocketInv'
  BY <1>1, <1>2, <1>3 DEF NegotiationInv, SocketInv, Relaying, Waiting, HeaderLoops, Ended
<1>7. PasswordInv'
  BY <1>1, <1>2, <1>3 DEF OptionTypes, NegotiationInv, NegotiationTypeOK, PasswordInv, RealPassword, StageInv, HeaderLoops, Waiting
<1>8. AskInv'
  BY <1>1, <1>2, <1>3 DEF OptionTypes, NegotiationInv, NegotiationTypeOK, AskInv, AskedTwice, Challenges, HeaderLoops, Waiting, StageInv
<1>9. AlarmInNegotiation'
  BY <1>1, <1>2, <1>3 DEF OptionTypes, NegotiationInv, NegotiationTypeOK, AlarmInNegotiation, Waiting, HeaderLoops, Ended
<1>10. Negotiating
  BY <1>1, <1>2, <1>3 DEF OptionTypes, Negotiating, Waiting, HeaderLoops, Methods
<1> QED
  BY <1>4, <1>5, <1>6, <1>7, <1>8, <1>9, <1>10 DEF NegotiationInv

LEMMA Socks5BoundStep == NegotiationInv /\ Socks5Bound => NegotiationInv' /\ Negotiating
<1> SUFFICES ASSUME NegotiationInv, Socks5Bound PROVE NegotiationInv' /\ Negotiating
  OBVIOUS
<1>1. OptionTypes
  BY OptionsTyped DEF NegotiationInv
<1>2. /\ pc = "socks5_bound" /\ pc' = "relay" /\ timer' = 0
      /\ UNCHANGED <<opts, dest_addr, peer, asked, proxy_auth, relay_lost, password,
                     sent, sockets, redirected, answer, lines>>
      /\ unread' = unread - BoundRead(answer)
  BY DEF Socks5Bound, Connected, ClearTimer, Unmoved
<1>3. answer \in AddressTypes /\ unread' \in Nat /\ (answer # "unknown" => unread' = 0)
  BY <1>2, Addresses DEF NegotiationInv, StageInv
<1>4. NegotiationTypeOK'
  BY <1>1, <1>2, <1>3 DEF OptionTypes, NegotiationInv, NegotiationTypeOK, Waiting, HeaderLoops, Ended, SocketInv, AddressTypes
<1>5. StageInv'
  BY <1>1, <1>2, <1>3 DEF OptionTypes, NegotiationInv, StageInv, RelayGranted, Granted, Relaying, Waiting, HeaderLoops, Ended, Methods
<1>6. SocketInv'
  BY <1>1, <1>2, <1>3 DEF NegotiationInv, SocketInv, Relaying, Waiting, HeaderLoops, Ended
<1>7. PasswordInv'
  BY <1>1, <1>2, <1>3 DEF OptionTypes, NegotiationInv, NegotiationTypeOK, PasswordInv, RealPassword, StageInv, HeaderLoops, Waiting
<1>8. AskInv'
  BY <1>1, <1>2, <1>3 DEF OptionTypes, NegotiationInv, NegotiationTypeOK, AskInv, AskedTwice, Challenges, HeaderLoops, Waiting, StageInv
<1>9. AlarmInNegotiation'
  BY <1>1, <1>2, <1>3 DEF OptionTypes, NegotiationInv, NegotiationTypeOK, AlarmInNegotiation, Waiting, HeaderLoops, Ended
<1>10. Negotiating
  BY <1>1, <1>2, <1>3 DEF OptionTypes, Negotiating, Waiting, HeaderLoops, Methods
<1> QED
  BY <1>4, <1>5, <1>6, <1>7, <1>8, <1>9, <1>10 DEF NegotiationInv

LEMMA Socks4ReplyStep == NegotiationInv /\ Socks4Reply => NegotiationInv' /\ Negotiating
<1> SUFFICES ASSUME NegotiationInv, Socks4Reply PROVE NegotiationInv' /\ Negotiating
  OBVIOUS
<1>1. OptionTypes
  BY OptionsTyped DEF NegotiationInv
<1>2. /\ pc = "socks4_reply"
      /\ UNCHANGED <<opts, dest_addr, peer, asked, proxy_auth, relay_lost, password,
                     sent, sockets, redirected, unread, lines>>
      /\ \/ pc' = "fatal" /\ timer' = timer
         \/ pc' = "relay" /\ timer' = 0 /\ answer' = "granted"
  BY DEF Socks4Reply, Connected, ClearTimer, Fatal, Unmoved
<1>4. NegotiationTypeOK'
  BY <1>1, <1>2 DEF OptionTypes, NegotiationInv, NegotiationTypeOK, Waiting, HeaderLoops, Ended, SocketInv, AddressTypes
<1>5. StageInv'
  BY <1>1, <1>2 DEF OptionTypes, NegotiationInv, StageInv, RelayGranted, Granted, Relaying, Waiting, HeaderLoops, Ended, Methods
<1>6. SocketInv'
  BY <1>1, <1>2 DEF NegotiationInv, SocketInv, Relaying, Waiting, HeaderLoops, Ended
<1>7. PasswordInv'
  BY <1>1, <1>2 DEF OptionTypes, NegotiationInv, NegotiationTypeOK, PasswordInv, RealPassword, StageInv, HeaderLoops, Waiting
<1>8. AskInv'
  BY <1>1, <1>2 DEF OptionTypes, NegotiationInv, NegotiationTypeOK, AskInv, AskedTwice, Challenges, HeaderLoops, Waiting, StageInv
<1>9. AlarmInNegotiation'
  BY <1>1, <1>2 DEF OptionTypes, NegotiationInv, NegotiationTypeOK, AlarmInNegotiation, Waiting, HeaderLoops, Ended
<1>10. Negotiating
  BY <1>1, <1>2 DEF OptionTypes, Negotiating, Waiting, HeaderLoops, Methods
<1> QED
  BY <1>4, <1>5, <1>6, <1>7, <1>8, <1>9, <1>10 DEF NegotiationInv

LEMMA HttpStatusStep == NegotiationInv /\ HttpStatus => NegotiationInv' /\ Negotiating
<1> SUFFICES ASSUME NegotiationInv, HttpStatus PROVE NegotiationInv' /\ Negotiating
  OBVIOUS
<1>1. OptionTypes
  BY OptionsTyped DEF NegotiationInv
<1>2. /\ pc = "http_status" /\ lines' = 0
      /\ UNCHANGED <<opts, dest_addr, peer, timer, proxy_auth, relay_lost, password,
                     sent, sockets, unread>>
      /\ redirected' \in BOOLEAN /\ (redirected => redirected')
      /\ \/ pc' = "http_200" /\ answer' = "200" /\ asked' = asked
         \/ pc' = "http_302" /\ redirected' /\ asked' = 0
         \/ pc' = "http_auth" /\ ~proxy_auth /\ asked' = asked
         \/ pc' = "fatal" /\ asked' = asked
  <2> PICK status \in { "200", "302", "401", "407", "other" } : HttpAnswered(status)
    BY Zenon DEF HttpStatus, HttpAnswered
  <2>1. status = "200" => pc' = "http_200" /\ answer' = "200" /\ asked' = asked
    BY Zenon DEF HttpAnswered
  <2>2. status = "302" => pc' = "http_302" /\ redirected' /\ asked' = 0
    BY Zenon DEF HttpAnswered
  <2>3. status \in { "401", "407" } =>
          asked' = asked /\ pc' = IF proxy_auth THEN "fatal" ELSE "http_auth"
    BY Zenon DEF HttpAnswered
  <2>4. status = "other" => pc' = "fatal" /\ asked' = asked
    BY Zenon DEF HttpAnswered
  <2>5. /\ pc = "http_status" /\ lines' = 0
        /\ UNCHANGED <<opts, dest_addr, peer, timer, proxy_auth, relay_lost, password,
                       sent, sockets, unread>>
    BY DEF HttpStatus, Unmoved
  <2>6. redirected' \in BOOLEAN /\ (redirected => redirected')
    BY Zenon DEF HttpAnswered, NegotiationInv, NegotiationTypeOK
  <2> QED
    BY <2>1, <2>2, <2>3, <2>4, <2>5, <2>6
<1>4. NegotiationTypeOK'
  BY <1>1, <1>2 DEF OptionTypes, NegotiationInv, NegotiationTypeOK, Waiting, HeaderLoops, Ended, SocketInv, AddressTypes
<1>5. StageInv'
  BY <1>1, <1>2 DEF OptionTypes, NegotiationInv, StageInv, RelayGranted, Granted, Relaying, Waiting, HeaderLoops, Ended, Methods
<1>6. SocketInv'
  BY <1>1, <1>2 DEF NegotiationInv, SocketInv, Relaying, Waiting, HeaderLoops, Ended
<1>7. PasswordInv'
  BY <1>1, <1>2 DEF OptionTypes, NegotiationInv, NegotiationTypeOK, PasswordInv, RealPassword, StageInv, HeaderLoops, Waiting
<1>8. AskInv'
  BY <1>1, <1>2 DEF OptionTypes, NegotiationInv, NegotiationTypeOK, AskInv, AskedTwice, Challenges, HeaderLoops, Waiting, StageInv
<1>9. AlarmInNegotiation'
  BY <1>1, <1>2 DEF OptionTypes, NegotiationInv, NegotiationTypeOK, AlarmInNegotiation, Waiting, HeaderLoops, Ended
<1>10. Negotiating
  BY <1>1, <1>2 DEF OptionTypes, Negotiating, Waiting, HeaderLoops, Methods
<1> QED
  BY <1>4, <1>5, <1>6, <1>7, <1>8, <1>9, <1>10 DEF NegotiationInv

LEMMA HttpHeaderStep == NegotiationInv /\ HttpHeader => NegotiationInv' /\ Negotiating
<1> SUFFICES ASSUME NegotiationInv, HttpHeader PROVE NegotiationInv' /\ Negotiating
  OBVIOUS
<1>1. OptionTypes
  BY OptionsTyped DEF NegotiationInv
<1>2. /\ pc \in HeaderLoops /\ lines' = lines + 1 /\ lines < MaxHeaders
      /\ UNCHANGED <<opts, dest_addr, peer, asked, timer, password, sent, sockets, redirected,
                     answer, unread>>
      /\ relay_lost' \in BOOLEAN
      /\ pc' \in { pc, "fatal" }
      /\ proxy_auth' = proxy_auth \/ (pc = "http_auth" /\ proxy_auth' = TRUE)
  <2>1. relay_lost \in BOOLEAN /\ proxy_auth \in BOOLEAN
    BY DEF NegotiationInv, NegotiationTypeOK
  <2>2. PICK header \in { "plain", "location", "basic", "digest", "malformed" } :
          /\ relay_lost' = (relay_lost \/ (pc = "http_302" /\ header = "location"))
          /\ proxy_auth' = (proxy_auth \/ (pc = "http_auth" /\ header = "basic"))
          /\ pc' \in { pc, "fatal" }
    BY DEF HttpHeader, Fatal
  <2>3. relay_lost' \in BOOLEAN
    BY <2>1, <2>2
  <2>4. proxy_auth' = proxy_auth \/ (pc = "http_auth" /\ proxy_auth' = TRUE)
    BY <2>1, <2>2
  <2> QED
    BY <2>2, <2>3, <2>4 DEF HttpHeader, Unmoved
<1>3. proxy_auth' \in BOOLEAN
  BY <1>2 DEF NegotiationInv, NegotiationTypeOK
<1>4. NegotiationTypeOK'
  BY <1>1, <1>2, <1>3 DEF OptionTypes, NegotiationInv, NegotiationTypeOK, Waiting, HeaderLoops, Ended, SocketInv, AddressTypes
<1>5. StageInv'
  BY <1>1, <1>2 DEF OptionTypes, NegotiationInv, StageInv, RelayGranted, Granted, Relaying, Waiting, HeaderLoops, Ended, Methods
<1>6. SocketInv'
  BY <1>1, <1>2 DEF NegotiationInv, SocketInv, Relaying, Waiting, HeaderLoops, Ended
<1>7. PasswordInv'
  BY <1>1, <1>2 DEF OptionTypes, NegotiationInv, NegotiationTypeOK, PasswordInv, RealPassword, StageInv, HeaderLoops, Waiting
<1>8. AskInv'
  BY <1>1, <1>2 DEF OptionTypes, NegotiationInv, NegotiationTypeOK, AskInv, AskedTwice, Challenges, HeaderLoops, Waiting, StageInv
<1>9. AlarmInNegotiation'
  BY <1>1, <1>2 DEF OptionTypes, NegotiationInv, NegotiationTypeOK, AlarmInNegotiation, Waiting, HeaderLoops, Ended
<1>10. Negotiating
  BY <1>1, <1>2, <1>3 DEF OptionTypes, Negotiating, Waiting, HeaderLoops, Methods
<1> QED
  BY <1>4, <1>5, <1>6, <1>7, <1>8, <1>9, <1>10 DEF NegotiationInv

LEMMA HttpEmptyLineStep == NegotiationInv /\ HttpEmptyLine => NegotiationInv' /\ Negotiating
<1> SUFFICES ASSUME NegotiationInv, HttpEmptyLine PROVE NegotiationInv' /\ Negotiating
  OBVIOUS
<1>1. OptionTypes
  BY OptionsTyped DEF NegotiationInv
<1>2. /\ pc \in HeaderLoops
      /\ UNCHANGED <<opts, dest_addr, peer, asked, proxy_auth, relay_lost, password, sent,
                     redirected, answer, unread, lines>>
      /\ \/ pc = "http_200" /\ pc' = "relay" /\ timer' = 0 /\ sockets' = sockets
         \/ /\ pc = "http_302" \/ (pc = "http_auth" /\ proxy_auth)
            /\ pc' = "connect" /\ sockets' = sockets - 1 /\ timer' = timer
         \/ pc' = "fatal" /\ UNCHANGED <<sockets, timer>>
  BY Zenon DEF HttpEmptyLine, Connected, ClearTimer, AskAgain, Retry, Fatal, Unmoved
<1>4. NegotiationTypeOK'
  BY <1>1, <1>2 DEF OptionTypes, NegotiationInv, NegotiationTypeOK, Waiting, HeaderLoops, Ended, SocketInv, AddressTypes
<1>5. StageInv'
  BY <1>1, <1>2 DEF OptionTypes, NegotiationInv, StageInv, RelayGranted, Granted, Relaying, Waiting, HeaderLoops, Ended, Methods
<1>6. SocketInv'
  BY <1>1, <1>2 DEF NegotiationInv, SocketInv, Relaying, Waiting, HeaderLoops, Ended
<1>7. PasswordInv'
  BY <1>1, <1>2 DEF OptionTypes, NegotiationInv, NegotiationTypeOK, PasswordInv, RealPassword, StageInv, HeaderLoops, Waiting
<1>8. AskInv'
  BY <1>1, <1>2 DEF OptionTypes, NegotiationInv, NegotiationTypeOK, AskInv, AskedTwice, Challenges, HeaderLoops, Waiting, StageInv
<1>9. AlarmInNegotiation'
  BY <1>1, <1>2 DEF OptionTypes, NegotiationInv, NegotiationTypeOK, AlarmInNegotiation, Waiting, HeaderLoops, Ended
<1>10. Negotiating
  BY <1>1, <1>2 DEF OptionTypes, Negotiating, Waiting, HeaderLoops, Methods
<1> QED
  BY <1>4, <1>5, <1>6, <1>7, <1>8, <1>9, <1>10 DEF NegotiationInv

LEMMA TelnetLineStep == NegotiationInv /\ TelnetLine => NegotiationInv' /\ Negotiating
<1> SUFFICES ASSUME NegotiationInv, TelnetLine PROVE NegotiationInv' /\ Negotiating
  OBVIOUS
<1>1. OptionTypes
  BY OptionsTyped DEF NegotiationInv
<1>2. /\ pc = "telnet"
      /\ UNCHANGED <<opts, dest_addr, peer, asked, proxy_auth, relay_lost, password, sent,
                     sockets, redirected, unread>>
      /\ lines' = lines \/ (lines' = lines + 1 /\ lines < MaxHeaders)
      /\ \/ pc' = "relay" /\ timer' = 0 /\ answer' = "connected_to"
         \/ pc' \in { "fatal", pc } /\ timer' = timer
  BY Zenon DEF TelnetLine, Connected, ClearTimer, Fatal, Unmoved
<1>4. NegotiationTypeOK'
  BY <1>1, <1>2 DEF OptionTypes, NegotiationInv, NegotiationTypeOK, Waiting, HeaderLoops, Ended, SocketInv, AddressTypes
<1>5. StageInv'
  BY <1>1, <1>2 DEF OptionTypes, NegotiationInv, StageInv, RelayGranted, Granted, Relaying, Waiting, HeaderLoops, Ended, Methods
<1>6. SocketInv'
  BY <1>1, <1>2 DEF NegotiationInv, SocketInv, Relaying, Waiting, HeaderLoops, Ended
<1>7. PasswordInv'
  BY <1>1, <1>2 DEF OptionTypes, NegotiationInv, NegotiationTypeOK, PasswordInv, RealPassword, StageInv, HeaderLoops, Waiting
<1>8. AskInv'
  BY <1>1, <1>2 DEF OptionTypes, NegotiationInv, NegotiationTypeOK, AskInv, AskedTwice, Challenges, HeaderLoops, Waiting, StageInv
<1>9. AlarmInNegotiation'
  BY <1>1, <1>2 DEF OptionTypes, NegotiationInv, NegotiationTypeOK, AlarmInNegotiation, Waiting, HeaderLoops, Ended
<1>10. Negotiating
  BY <1>1, <1>2 DEF OptionTypes, Negotiating, Waiting, HeaderLoops, Methods
<1> QED
  BY <1>4, <1>5, <1>6, <1>7, <1>8, <1>9, <1>10 DEF NegotiationInv

LEMMA PeerClosesStep == NegotiationInv /\ PeerCloses => NegotiationInv' /\ Negotiating
<1> SUFFICES ASSUME NegotiationInv, PeerCloses PROVE NegotiationInv' /\ Negotiating
  OBVIOUS
<1>1. OptionTypes
  BY OptionsTyped DEF NegotiationInv
<1>2. /\ pc \in Waiting /\ peer' \in { "closed", "reset" }
      /\ UNCHANGED <<opts, pc, timer, proxy_auth, dest_addr, relay_lost, password, sent,
                     sockets, asked, redirected, answer, unread, lines>>
  BY DEF PeerCloses
<1>4. NegotiationTypeOK'
  BY <1>1, <1>2 DEF OptionTypes, NegotiationInv, NegotiationTypeOK, Waiting, HeaderLoops, Ended, SocketInv, AddressTypes
<1>5. StageInv'
  BY <1>1, <1>2 DEF OptionTypes, NegotiationInv, StageInv, RelayGranted, Granted, Relaying, Waiting, HeaderLoops, Ended, Methods
<1>6. SocketInv'
  BY <1>1, <1>2 DEF NegotiationInv, SocketInv, Relaying, Waiting, HeaderLoops, Ended
<1>7. PasswordInv'
  BY <1>1, <1>2 DEF OptionTypes, NegotiationInv, NegotiationTypeOK, PasswordInv, RealPassword, StageInv, HeaderLoops, Waiting
<1>8. AskInv'
  BY <1>1, <1>2 DEF OptionTypes, NegotiationInv, NegotiationTypeOK, AskInv, AskedTwice, Challenges, HeaderLoops, Waiting, StageInv
<1>9. AlarmInNegotiation'
  BY <1>1, <1>2 DEF OptionTypes, NegotiationInv, NegotiationTypeOK, AlarmInNegotiation, Waiting, HeaderLoops, Ended
<1>10. Negotiating
  BY <1>1, <1>2 DEF OptionTypes, Negotiating, Waiting, HeaderLoops, Methods
<1> QED
  BY <1>4, <1>5, <1>6, <1>7, <1>8, <1>9, <1>10 DEF NegotiationInv

LEMMA EndOfStreamStep == NegotiationInv /\ EndOfStream => NegotiationInv' /\ Negotiating
<1> SUFFICES ASSUME NegotiationInv, EndOfStream PROVE NegotiationInv' /\ Negotiating
  OBVIOUS
<1>1. OptionTypes
  BY OptionsTyped DEF NegotiationInv
<1>2. /\ pc \in Waiting
      /\ UNCHANGED <<opts, dest_addr, peer, asked, proxy_auth, relay_lost, password, sent,
                     redirected, answer, unread, lines, timer>>
      /\ \/ /\ pc = "http_302" \/ (pc = "http_auth" /\ proxy_auth)
            /\ pc' = "connect" /\ sockets' = sockets - 1
         \/ pc' = "fatal" /\ sockets' = sockets
  BY DEF EndOfStream, AskAgain, Retry, Fatal, Unmoved
<1>4. NegotiationTypeOK'
  BY <1>1, <1>2 DEF OptionTypes, NegotiationInv, NegotiationTypeOK, Waiting, HeaderLoops, Ended, SocketInv, AddressTypes
<1>5. StageInv'
  BY <1>1, <1>2 DEF OptionTypes, NegotiationInv, StageInv, RelayGranted, Granted, Relaying, Waiting, HeaderLoops, Ended, Methods
<1>6. SocketInv'
  BY <1>1, <1>2 DEF NegotiationInv, SocketInv, Relaying, Waiting, HeaderLoops, Ended
<1>7. PasswordInv'
  BY <1>1, <1>2 DEF OptionTypes, NegotiationInv, NegotiationTypeOK, PasswordInv, RealPassword, StageInv, HeaderLoops, Waiting
<1>8. AskInv'
  BY <1>1, <1>2 DEF OptionTypes, NegotiationInv, NegotiationTypeOK, AskInv, AskedTwice, Challenges, HeaderLoops, Waiting, StageInv
<1>9. AlarmInNegotiation'
  BY <1>1, <1>2 DEF OptionTypes, NegotiationInv, NegotiationTypeOK, AlarmInNegotiation, Waiting, HeaderLoops, Ended
<1>10. Negotiating
  BY <1>1, <1>2 DEF OptionTypes, Negotiating, Waiting, HeaderLoops, Methods
<1> QED
  BY <1>4, <1>5, <1>6, <1>7, <1>8, <1>9, <1>10 DEF NegotiationInv

LEMMA TickStep == NegotiationInv /\ Tick => NegotiationInv' /\ Negotiating
<1> SUFFICES ASSUME NegotiationInv, Tick PROVE NegotiationInv' /\ Negotiating
  OBVIOUS
<1>1. OptionTypes
  BY OptionsTyped DEF NegotiationInv
<1>2. /\ timer > 0 /\ timer' = timer - 1 /\ pc \in Waiting
      /\ UNCHANGED <<opts, proxy_auth, dest_addr, relay_lost, password, sent, peer,
                     sockets, asked, redirected, answer, unread, lines>>
      /\ pc' = pc \/ pc' = "timed_out"
      /\ pc' = pc => timer # 1
  <2>1. timer = 1 => pc' = "timed_out"
    BY DEF Tick
  <2>2. pc \in Waiting => pc # "timed_out"
    BY DEF Waiting
  <2> QED
    BY <2>1, <2>2 DEF Tick
<1>4. NegotiationTypeOK'
  BY <1>1, <1>2 DEF OptionTypes, NegotiationInv, NegotiationTypeOK, Waiting, HeaderLoops, Ended, SocketInv, AddressTypes
<1>5. StageInv'
  BY <1>1, <1>2 DEF OptionTypes, NegotiationInv, StageInv, RelayGranted, Granted, Relaying, Waiting, HeaderLoops, Ended, Methods
<1>6. SocketInv'
  BY <1>1, <1>2 DEF NegotiationInv, SocketInv, Relaying, Waiting, HeaderLoops, Ended
<1>7. PasswordInv'
  BY <1>1, <1>2 DEF OptionTypes, NegotiationInv, NegotiationTypeOK, PasswordInv, RealPassword, StageInv, HeaderLoops, Waiting
<1>8. AskInv'
  BY <1>1, <1>2 DEF OptionTypes, NegotiationInv, NegotiationTypeOK, AskInv, AskedTwice, Challenges, HeaderLoops, Waiting, StageInv
<1>9. AlarmInNegotiation'
  BY <1>1, <1>2 DEF OptionTypes, NegotiationInv, NegotiationTypeOK, AlarmInNegotiation, Waiting, HeaderLoops, Ended
<1>10. Negotiating
  BY <1>1, <1>2 DEF OptionTypes, Negotiating, Waiting, HeaderLoops, Methods
<1> QED
  BY <1>4, <1>5, <1>6, <1>7, <1>8, <1>9, <1>10 DEF NegotiationInv

(* Whatever the proxy answers, closes, resets or leaves unsaid.             *)
LEMMA NegotiatingStep ==
  NegotiationInv /\ (Negotiate \/ PeerCloses \/ Tick) => NegotiationInv' /\ Negotiating
BY ConnectStep, Socks5MethodStep, Socks5UserPassStep, Socks5ReplyStep, Socks5BoundStep,
   Socks4ReplyStep, HttpStatusStep, HttpHeaderStep, HttpEmptyLineStep, TelnetLineStep,
   PeerClosesStep, EndOfStreamStep, TickStep DEF Negotiate

(* A step of the relay leaves the negotiation where it ended.               *)
LEMMA RelayingStep ==
  ASSUME NegotiationInv,
         UNCHANGED <<opts, timer, proxy_auth, dest_addr, relay_lost, password, sent, peer,
                     asked, redirected, answer, unread, lines>>,
         \/ pc' = pc /\ sockets' = sockets
         \/ pc \in Relaying /\ pc' \in Relaying /\ sockets' = sockets
         \/ pc = "accept" /\ pc' = "connect" /\ sockets' = sockets
         \/ pc' \in Ended /\ sockets' \in Nat /\ sockets' <= 1
  PROVE  NegotiationInv'
<1>1. OptionTypes
  BY OptionsTyped DEF NegotiationInv
<1>2. NegotiationTypeOK'
  BY DEF NegotiationInv, NegotiationTypeOK, Relaying, Ended
<1>3. StageInv'
  <2>1. BoundAddress(answer)' = BoundAddress(answer)
    BY DEF BoundAddress
  <2> QED
    BY <2>1 DEF NegotiationInv, StageInv, RelayGranted, Granted, Relaying, HeaderLoops, Ended
<1>4. SocketInv'
  BY DEF NegotiationInv, SocketInv, Relaying, Waiting, HeaderLoops, Ended
<1>5. PasswordInv'
  BY DEF NegotiationInv, PasswordInv, RealPassword, Relaying, Ended
<1>6. AskInv'
  <2>1. asked \in Nat /\ Challenges' = Challenges /\ Challenges \in 0 .. 1
    BY <1>1 DEF OptionTypes, NegotiationInv, NegotiationTypeOK, Challenges
  <2> QED
    BY <2>1 DEF NegotiationInv, AskInv, AskedTwice, Relaying, Ended
<1>7. AlarmInNegotiation'
  BY DEF NegotiationInv, AlarmInNegotiation, Relaying, Waiting, HeaderLoops, Ended
<1> QED
  BY <1>2, <1>3, <1>4, <1>5, <1>6, <1>7 DEF NegotiationInv

-----------------------------------------------------------------------------
(* Sequences of bytes.                                                      *)

LEMMA SequenceOf ==
  ASSUME NEW S, NEW s \in Seq(S)
  PROVE  Sequence(s) /\ DOMAIN s = 1 .. Len(s)
BY DEF Sequence

LEMMA EmptySequence == Sequence(<<>>) /\ Len(<<>>) = 0
BY DEF Sequence

LEMMA Joined ==
  ASSUME NEW s, NEW t, Sequence(s), Sequence(t)
  PROVE  /\ Sequence(s \o t) /\ Len(s \o t) = Len(s) + Len(t)
         /\ \A i \in 1 .. Len(s) : (s \o t)[i] = s[i]
         /\ \A i \in 1 .. Len(t) : (s \o t)[Len(s) + i] = t[i]
<1>1. PICK S : s \in Seq(S)
  BY DEF Sequence
<1>2. PICK T : t \in Seq(T)
  BY DEF Sequence
<1>3. s \in Seq(S \cup T) /\ t \in Seq(S \cup T)
  BY <1>1, <1>2
<1>4. s \o t \in Seq(S \cup T)
  BY <1>3
<1>5. Sequence(s \o t)
  BY <1>4, SequenceOf
<1>6. Len(s) \in Nat /\ Len(t) \in Nat /\ Len(s \o t) = Len(s) + Len(t)
  BY <1>3
<1>7. \A i \in 1 .. Len(s) : (s \o t)[i] = s[i]
  BY <1>3
<1>8. \A i \in 1 .. Len(t) : (s \o t)[Len(s) + i] = t[i]
  BY <1>3
<1> QED
  BY <1>5, <1>6, <1>7, <1>8

LEMMA Parted ==
  ASSUME NEW s, Sequence(s), NEW n \in 1 .. Len(s)
  PROVE  /\ Sequence(SubSeq(s, 1, n)) /\ Len(SubSeq(s, 1, n)) = n
         /\ \A i \in 1 .. n : SubSeq(s, 1, n)[i] = s[i]
         /\ Sequence(Rest(s, n)) /\ Len(Rest(s, n)) = Len(s) - n
         /\ \A i \in 1 .. Len(s) - n : Rest(s, n)[i] = s[n + i]
<1>1. PICK S : s \in Seq(S)
  BY DEF Sequence
<1>2. Len(s) \in Nat
  BY DEF Sequence
<1>3. SubSeq(s, 1, n) \in Seq(S)
  BY <1>1, <1>2
<1>4. Rest(s, n) \in Seq(S)
  BY <1>1, <1>2 DEF Rest
<1>5. Sequence(SubSeq(s, 1, n)) /\ Sequence(Rest(s, n))
  BY <1>3, <1>4, SequenceOf
<1>6. Len(SubSeq(s, 1, n)) = n /\ \A i \in 1 .. n : SubSeq(s, 1, n)[i] = s[i]
  BY <1>1, <1>2
<1>7. Len(Rest(s, n)) = Len(s) - n
  BY <1>1, <1>2 DEF Rest
<1>8. \A i \in 1 .. Len(s) - n : Rest(s, n)[i] = s[n + i]
  BY <1>1, <1>2 DEF Rest
<1> QED
  BY <1>5, <1>6, <1>7, <1>8

LEMMA Prefix ==
  ASSUME NEW s, NEW n \in Nat
  PROVE  Sequence(SubSeq(s, 1, n)) /\ Len(SubSeq(s, 1, n)) = n
<1>1. SubSeq(s, 1, n) = [i \in 1 .. n |-> s[i]]
  OBVIOUS
<1>2. [i \in 1 .. n |-> s[i]] \in Seq({ s[i] : i \in 1 .. n })
  OBVIOUS
<1>3. Sequence([i \in 1 .. n |-> s[i]])
  BY <1>2, SequenceOf
<1>4. Len([i \in 1 .. n |-> s[i]]) = n
  OBVIOUS
<1> QED
  BY <1>1, <1>3, <1>4

LEMMA Numbered ==
  ASSUME NEW from \in Nat, NEW n \in Nat
  PROVE  /\ Sequence(Bytes(from, n)) /\ Len(Bytes(from, n)) = n
         /\ \A i \in 1 .. n : Bytes(from, n)[i] = from + i
<1>1. Bytes(from, n) \in Seq(Nat)
  BY DEF Bytes
<1>2. Sequence(Bytes(from, n))
  BY <1>1, SequenceOf
<1> QED
  BY <1>2 DEF Bytes

(* What memcpy leaves has the right length, and the right bytes where       *)
(* source and destination do not overlap.                                   *)
LEMMA Moved ==
  ASSUME NEW s, Sequence(s), NEW n \in 1 .. Len(s), NEW t \in memcpy(s, n)
  PROVE  Sequence(t) /\ Len(t) = Len(s) - n /\ (~Overlaps(s, n) => t = Rest(s, n))
<1>1. Len(s) - n \in Nat
  BY DEF Sequence
<1>2. CASE t = Rest(s, n)
  BY <1>2, Parted
<1>3. CASE Overlaps(s, n) /\ t = FromAbove(s, n)
  BY <1>1, <1>3, Prefix DEF FromAbove
<1> QED
  BY <1>2, <1>3 DEF memcpy

-----------------------------------------------------------------------------
(* An iteration of the relay's loop.                                        *)

LEMMA RelayTypes ==
  ASSUME TypeOK
  PROVE  /\ local.written \in Nat /\ local.read \in Nat /\ local.closed \in BOOLEAN
         /\ remote.written \in Nat /\ remote.read \in Nat /\ remote.closed \in BOOLEAN
         /\ local.read <= local.written /\ remote.read <= remote.written
         /\ BufferSize \in Nat
BY BufferAssumption DEF TypeOK, Sides

(* What is read follows what was in the buffer, and is the next of what the *)
(* side wrote.                                                              *)
Reads(side, buf, n, new) ==
  /\ n \in Nat /\ side.read + n <= side.written
  /\ Sequence(new) /\ Len(new) = Len(buf) + n /\ Len(new) <= BufferSize
  /\ \A i \in 1 .. Len(buf) : new[i] = buf[i]
  /\ \A i \in 1 .. n : new[Len(buf) + i] = side.read + i

LEMMA ReadSome ==
  ASSUME NEW side, side.read \in Nat, side.written \in Nat, side.read <= side.written,
         NEW buf, Sequence(buf), Len(buf) <= BufferSize, BufferSize \in Nat,
         NEW n \in CanRead(side, buf)
  PROVE  /\ n \in Nat
         /\ Reads(side, buf, n, buf \o Bytes(side.read, n))
         /\ n = 0 => Reads(side, buf, n, buf)
<1>1. Len(buf) \in Nat
  BY DEF Sequence
<1>2. n \in Nat /\ side.read + n <= side.written /\ Len(buf) + n <= BufferSize
  BY <1>1 DEF CanRead, Least
<1>3. Reads(side, buf, n, buf \o Bytes(side.read, n))
  <2>1. /\ Sequence(Bytes(side.read, n)) /\ Len(Bytes(side.read, n)) = n
        /\ \A i \in 1 .. n : Bytes(side.read, n)[i] = side.read + i
    BY <1>2, Numbered
  <2> DEFINE new == buf \o Bytes(side.read, n)
  <2>2. /\ Sequence(new) /\ Len(new) = Len(buf) + n
        /\ \A i \in 1 .. Len(buf) : new[i] = buf[i]
        /\ \A i \in 1 .. n : new[Len(buf) + i] = side.read + i
    BY <2>1, Joined
  <2> QED
    BY <1>2, <2>2 DEF Reads
<1>4. n = 0 => Reads(side, buf, n, buf)
  BY <1>1, <1>2 DEF Reads
<1> QED
  BY <1>2, <1>3, <1>4

LEMMA Received ==
  ASSUME RelayInv, NEW n \in CanRead(remote, rbuf), Amount(n, f_remote, remote, rbuf),
         NEW r, r = RecvRemote(n)
  PROVE  /\ r.n = n /\ Reads(remote, rbuf, n, r.buf)
         /\ r.on \in BOOLEAN /\ r.lon \in BOOLEAN /\ r.why \in { "unknown", "local", "remote" }
         /\ ~r.on => n = 0 /\ (~f_remote \/ (remote.closed /\ remote.read = remote.written))
<1>1. n \in Nat /\ Reads(remote, rbuf, n, rbuf \o Bytes(remote.read, n))
      /\ (n = 0 => Reads(remote, rbuf, n, rbuf))
  BY RelayTypes, ReadSome DEF RelayInv, TypeOK
<1>2. CASE f_remote /\ Len(rbuf) < BufferSize /\ remote.read < remote.written
  BY <1>1, <1>2 DEF RecvRemote, Ready, RelayInv, TypeOK
<1>3. CASE f_remote /\ Len(rbuf) < BufferSize /\ Ready(remote) /\ ~(remote.read < remote.written)
  <2>1. n = 0 /\ remote.closed /\ remote.read = remote.written
    BY <1>1, <1>3, RelayTypes DEF Amount, Ready, RelayInv
  <2> QED
    BY <1>1, <1>3, <2>1 DEF RecvRemote, RelayInv, TypeOK
<1>4. CASE ~(f_remote /\ Len(rbuf) < BufferSize /\ Ready(remote))
  <2>1. n = 0
    BY <1>1, <1>4 DEF Amount, Ready
  <2> QED
    BY <1>1, <1>4, <2>1 DEF RecvRemote, RelayInv, TypeOK
<1> QED
  BY <1>2, <1>3, <1>4 DEF Ready

LEMMA ReadIn ==
  ASSUME RelayInv, NEW m \in CanRead(local, lbuf), Amount(m, f_local, local, lbuf),
         NEW r, r.lon \in BOOLEAN, r.why \in { "unknown", "local", "remote" },
         NEW l, l = ReadLocal(m, r)
  PROVE  /\ l.n = m /\ Reads(local, lbuf, m, l.buf)
         /\ l.on \in BOOLEAN /\ l.end \in BOOLEAN /\ l.why \in { "unknown", "local", "remote" }
         /\ l.end => m = 0 /\ l.buf = lbuf /\ local.closed /\ local.read = local.written
<1>1. m \in Nat /\ Reads(local, lbuf, m, lbuf \o Bytes(local.read, m))
      /\ (m = 0 => Reads(local, lbuf, m, lbuf))
  BY RelayTypes, ReadSome DEF RelayInv, TypeOK
<1>2. CASE f_local /\ Len(lbuf) < BufferSize /\ local.read < local.written
  BY <1>1, <1>2 DEF ReadLocal, Ready
<1>3. CASE f_local /\ Len(lbuf) < BufferSize /\ Ready(local) /\ ~(local.read < local.written)
  <2>1. m = 0 /\ local.closed /\ local.read = local.written
    BY <1>1, <1>3, RelayTypes DEF Amount, Ready, RelayInv
  <2> QED
    BY <1>1, <1>3, <2>1 DEF ReadLocal
<1>4. CASE ~(f_local /\ Len(lbuf) < BufferSize /\ Ready(local))
  <2>1. m = 0
    BY <1>1, <1>4 DEF Amount, Ready
  <2> QED
    BY <1>1, <1>4, <2>1 DEF ReadLocal
<1> QED
  BY <1>2, <1>3, <1>4 DEF Ready

(* Whatever part send takes, what is left is as long as it should be, and   *)
(* in order unless memcpy moved it over itself.                             *)
Follows(sofar, buf) == \A i \in 1 .. Len(buf) : buf[i] = Len(sofar) + i

LEMMA FlushedOut ==
  ASSUME NEW buf, Sequence(buf), Sequence(toRemote), damaged \in BOOLEAN, FlushToRemote(buf)
  PROVE  /\ Sequence(toRemote') /\ Sequence(lbuf') /\ Len(lbuf') <= Len(buf)
         /\ damaged' \in BOOLEAN /\ (damaged => damaged')
         /\ remote.closed => toRemote' = toRemote
         /\ ~remote.closed => Len(toRemote') + Len(lbuf') = Len(toRemote) + Len(buf)
         /\ (~remote.closed /\ ~damaged' /\ InOrder(toRemote) /\ Follows(toRemote, buf)) =>
              InOrder(toRemote') /\ Follows(toRemote', lbuf')
<1>1. Len(buf) \in Nat /\ Len(toRemote) \in Nat
  BY DEF Sequence
<1>2. CASE buf = <<>>
  BY <1>1, <1>2, EmptySequence DEF FlushToRemote
<1>3. CASE buf # <<>>
  <2>1. PICK n \in 1 .. Len(buf) :
          /\ toRemote' = IF remote.closed THEN toRemote ELSE toRemote \o SubSeq(buf, 1, n)
          /\ lbuf' \in memcpy(buf, n)
          /\ damaged' = (damaged \/ Overlaps(buf, n))
    BY <1>3 DEF FlushToRemote
  <2>2. Sequence(lbuf') /\ Len(lbuf') = Len(buf) - n /\ (~Overlaps(buf, n) => lbuf' = Rest(buf, n))
    BY <2>1, Moved
  <2>3. damaged' \in BOOLEAN /\ (damaged => damaged') /\ (~damaged' => ~Overlaps(buf, n))
    BY <2>1
  <2>4. CASE remote.closed
    BY <1>1, <2>1, <2>2, <2>3, <2>4
  <2>5. CASE ~remote.closed
    <3>1. toRemote' = toRemote \o SubSeq(buf, 1, n)
      BY <2>1, <2>5
    <3>2. /\ Sequence(toRemote') /\ Len(toRemote') = Len(toRemote) + n
          /\ \A i \in 1 .. Len(toRemote) : toRemote'[i] = toRemote[i]
          /\ \A i \in 1 .. n : toRemote'[Len(toRemote) + i] = buf[i]
      BY <3>1, Joined, Parted
    <3>3. ASSUME ~damaged', InOrder(toRemote), Follows(toRemote, buf)
          PROVE  InOrder(toRemote') /\ Follows(toRemote', lbuf')
      <4>1. \A i \in 1 .. Len(toRemote) : toRemote[i] = i
        BY <3>3 DEF InOrder, Sequence
      <4>2. ASSUME NEW i \in 1 .. Len(toRemote')
            PROVE  toRemote'[i] = i
        <5>1. CASE i <= Len(toRemote)
          BY <1>1, <3>2, <4>1, <5>1
        <5>2. CASE i > Len(toRemote)
          <6> DEFINE j == i - Len(toRemote)
          <6>1. j \in 1 .. n /\ j \in 1 .. Len(buf) /\ i = Len(toRemote) + j
            BY <1>1, <3>2, <5>2
          <6> HIDE DEF j
          <6>2. toRemote'[i] = buf[j] /\ buf[j] = Len(toRemote) + j
            BY <3>2, <3>3, <6>1 DEF Follows
          <6> QED
            BY <6>1, <6>2
        <5> QED
          BY <1>1, <3>2, <5>1, <5>2
      <4>3. InOrder(toRemote')
        BY <3>2, <4>2 DEF InOrder, Sequence
      <4>4. ASSUME NEW i \in 1 .. Len(lbuf')
            PROVE  lbuf'[i] = Len(toRemote') + i
        <5>1. lbuf' = Rest(buf, n) /\ Len(lbuf') = Len(buf) - n
          BY <2>2, <2>3, <3>3
        <5>2. i \in 1 .. Len(buf) - n /\ n + i \in 1 .. Len(buf)
          BY <1>1, <5>1
        <5>3. lbuf'[i] = buf[n + i] /\ buf[n + i] = Len(toRemote) + (n + i)
          BY <3>3, <5>1, <5>2, Parted DEF Follows
        <5> QED
          BY <1>1, <3>2, <5>2, <5>3
      <4> QED
        BY <4>3, <4>4 DEF Follows
    <3> QED
      BY <1>1, <2>2, <2>3, <2>5, <3>2, <3>3
  <2> QED
    BY <2>4, <2>5
<1> QED
  BY <1>2, <1>3

(* A write that takes all leaves nothing.                                   *)
LEMMA FlushedIn ==
  ASSUME NEW buf, Sequence(buf), Sequence(toLocal), torn \in BOOLEAN, FlushToLocal(buf)
  PROVE  /\ Sequence(toLocal') /\ Sequence(rbuf') /\ Len(rbuf') <= Len(buf)
         /\ torn' \in BOOLEAN /\ (torn => torn')
         /\ ~torn' => /\ rbuf' = <<>> /\ Len(toLocal') = Len(toLocal) + Len(buf)
                      /\ InOrder(toLocal) /\ Follows(toLocal, buf) => InOrder(toLocal')
<1>1. Len(buf) \in Nat /\ Len(toLocal) \in Nat
  BY DEF Sequence
<1>2. CASE buf = <<>>
  BY <1>1, <1>2, EmptySequence DEF FlushToLocal
<1>3. CASE buf # <<>>
  <2>1. PICK n \in 1 .. Len(buf) :
          /\ toLocal' = toLocal \o SubSeq(buf, 1, n)
          /\ rbuf' \in IF n < Len(buf) - n THEN memcpy(buf, n) ELSE { SubSeq(buf, 1, Len(buf) - n) }
          /\ torn' = (torn \/ n < Len(buf))
    BY <1>3 DEF FlushToLocal
  <2>2. /\ Sequence(toLocal') /\ Len(toLocal') = Len(toLocal) + n
        /\ \A i \in 1 .. Len(toLocal) : toLocal'[i] = toLocal[i]
        /\ \A i \in 1 .. n : toLocal'[Len(toLocal) + i] = buf[i]
    BY <2>1, Joined, Parted
  <2>3. Sequence(rbuf') /\ Len(rbuf') = Len(buf) - n
    <3>1. CASE n < Len(buf) - n
      BY <2>1, <3>1, Moved
    <3>2. CASE ~(n < Len(buf) - n)
      <4>1. Len(buf) - n \in Nat /\ rbuf' = SubSeq(buf, 1, Len(buf) - n)
        BY <1>1, <2>1, <3>2
      <4> QED
        BY <4>1, Prefix
    <3> QED
      BY <3>1, <3>2
  <2>4. torn' \in BOOLEAN /\ (torn => torn') /\ (~torn' => n = Len(buf))
    <3>1. n < Len(buf) \/ n = Len(buf)
      BY <1>1
    <3> QED
      BY <2>1, <3>1, Zenon
  <2>5. ~torn' => rbuf' = <<>>
    <3>1. ~torn' => Len(rbuf') = 0
      BY <1>1, <2>3, <2>4
    <3> QED
      BY <2>3, <3>1 DEF Sequence
  <2>6. ASSUME ~torn', InOrder(toLocal), Follows(toLocal, buf)
        PROVE  InOrder(toLocal')
    <3>1. \A i \in 1 .. Len(toLocal) : toLocal[i] = i
      BY <2>6 DEF InOrder, Sequence
    <3>2. ASSUME NEW i \in 1 .. Len(toLocal')
          PROVE  toLocal'[i] = i
      <4>1. CASE i <= Len(toLocal)
        BY <1>1, <2>2, <3>1, <4>1
      <4>2. CASE i > Len(toLocal)
        <5> DEFINE j == i - Len(toLocal)
        <5>1. j \in 1 .. n /\ j \in 1 .. Len(buf) /\ i = Len(toLocal) + j
          BY <1>1, <2>2, <4>2
        <5> HIDE DEF j
        <5>2. toLocal'[i] = buf[j] /\ buf[j] = Len(toLocal) + j
          BY <2>2, <2>6, <5>1 DEF Follows
        <5> QED
          BY <5>1, <5>2
      <4> QED
        BY <1>1, <2>2, <4>1, <4>2
    <3> QED
      BY <2>2, <3>2 DEF InOrder, Sequence
  <2> QED
    BY <1>1, <2>2, <2>3, <2>4, <2>5, <2>6
<1> QED
  BY <1>2, <1>3

(* What has been read from the local side follows what was sent on, and so  *)
(* it does with the bytes just read; and the same of the other direction.   *)
LEMMA ReadingOut ==
  ASSUME RelayInv, NEW m, NEW new, Reads(local, lbuf, m, new)
  PROVE  /\ (opts.local # "hold" /\ ~remote.closed) => Len(toRemote) + Len(new) = local.read + m
         /\ (~damaged /\ ~remote.closed) =>
              Len(toRemote) + Len(new) = local.read + m /\ Follows(toRemote, new)
<1>1. Len(toRemote) \in Nat /\ Len(lbuf) \in Nat /\ m \in Nat /\ local.read \in Nat /\ Len(new) = Len(lbuf) + m
  BY RelayTypes DEF RelayInv, Sequence, Reads
<1>2. (opts.local # "hold" /\ ~remote.closed) => Len(toRemote) + Len(new) = local.read + m
  BY <1>1 DEF RelayInv, Outward
<1>3. ASSUME ~damaged, ~remote.closed
      PROVE  Len(toRemote) + Len(new) = local.read + m /\ Follows(toRemote, new)
  <2>1. Len(toRemote) + Len(lbuf) = local.read /\ \A i \in 1 .. Len(lbuf) : lbuf[i] = Len(toRemote) + i
    BY <1>3 DEF RelayInv, Outward
  <2>2. ASSUME NEW i \in 1 .. Len(new)
        PROVE  new[i] = Len(toRemote) + i
    <3>1. CASE i <= Len(lbuf)
      BY <1>1, <2>1, <3>1 DEF Reads
    <3>2. CASE i > Len(lbuf)
      <4> DEFINE j == i - Len(lbuf)
      <4>1. j \in 1 .. m /\ i = Len(lbuf) + j
        BY <1>1, <3>2
      <4> HIDE DEF j
      <4>2. new[i] = local.read + j
        BY <4>1 DEF Reads
      <4> QED
        BY <1>1, <2>1, <4>1, <4>2
    <3> QED
      BY <1>1, <3>1, <3>2
  <2> QED
    BY <1>1, <2>1, <2>2 DEF Follows
<1> QED
  BY <1>2, <1>3

LEMMA ReadingIn ==
  ASSUME RelayInv, NEW n, NEW new, Reads(remote, rbuf, n, new), ~torn, pc # "killed"
  PROVE  Len(toLocal) + Len(new) = remote.read + n /\ Follows(toLocal, new)
<1>1. rbuf = <<>> /\ Len(toLocal) = remote.read
  BY DEF RelayInv, Inward
<1>2. Len(rbuf) = 0 /\ n \in Nat /\ remote.read \in Nat
  BY <1>1, EmptySequence, RelayTypes DEF RelayInv, Reads
<1>3. Len(new) = n /\ \A i \in 1 .. n : new[0 + i] = remote.read + i
  BY <1>2 DEF Reads
<1> QED
  BY <1>1, <1>2, <1>3 DEF Follows

(* What an iteration does, whichever bytes it reads and wherever it ends.   *)
Iterates(r, n, l, m) ==
  /\ r.n = n /\ Reads(remote, rbuf, n, r.buf)
  /\ l.n = m /\ Reads(local, lbuf, m, l.buf)
  /\ r.on \in BOOLEAN /\ l.on \in BOOLEAN /\ l.end \in BOOLEAN /\ l.why \in { "unknown", "local", "remote" }
  /\ ~r.on => n = 0 /\ (~f_remote \/ (remote.closed /\ remote.read = remote.written))
  /\ l.end => m = 0 /\ l.buf = lbuf /\ local.closed /\ local.read = local.written
  /\ remote' = [remote EXCEPT !.read = @ + n]
  /\ local' = [local EXCEPT !.read = @ + m]
  /\ f_local' = l.on
  /\ f_remote' = (r.on /\ ~(~l.on /\ opts.local = "hold"))
  /\ reason' = l.why
  /\ shut' = (shut \/ (l.end /\ opts.local # "hold"))
  /\ \/ /\ ~(l.buf # <<>> /\ shut')
        /\ FlushToRemote(l.buf) /\ FlushToLocal(r.buf)
        /\ pc' = pc
     \/ /\ pc' = "killed"
        /\ lbuf' = l.buf /\ rbuf' = r.buf
        /\ UNCHANGED <<toRemote, toLocal, torn, damaged>>

LEMMA IterationOf ==
  ASSUME RelayInv, Repeat
  PROVE  /\ pc = "relay"
         /\ \E n, m, r, l : Iterates(r, n, l, m)
         /\ UNCHANGED <<opts, timer, proxy_auth, dest_addr, relay_lost, password, sent, peer,
                        sockets, asked, redirected, answer, unread, lines, listening>>
<1>1. PICK n \in CanRead(remote, rbuf), m \in CanRead(local, lbuf) :
        LET r    == RecvRemote(n)
            l    == ReadLocal(m, r)
            shut1 == Shuts(l.end)
            held == ~l.on /\ opts.local = "hold"
        IN /\ Amount(n, f_remote, remote, rbuf)
           /\ Amount(m, f_local, local, lbuf)
           /\ remote' = [remote EXCEPT !.read = @ + r.n]
           /\ local' = [local EXCEPT !.read = @ + l.n]
           /\ f_local' = l.on
           /\ f_remote' = (r.on /\ ~held)
           /\ reason' = l.why
           /\ shut' = shut1
           /\ \/ /\ ~(l.buf # <<>> /\ shut1)
                 /\ FlushToRemote(l.buf)
                 /\ FlushToLocal(r.buf)
                 /\ UNCHANGED pc
              \/ /\ \/ l.buf # <<>> /\ (shut1 \/ remote.closed)
                    \/ r.buf # <<>> /\ local.closed
                 /\ pc' = "killed"
                 /\ lbuf' = l.buf /\ rbuf' = r.buf
                 /\ UNCHANGED <<toRemote, toLocal, torn, damaged>>
  BY Zenon DEF Repeat
<1>2. PICK r : r = RecvRemote(n)
  OBVIOUS
<1>3. PICK l : l = ReadLocal(m, r)
  OBVIOUS
<1>4. /\ r.n = n /\ Reads(remote, rbuf, n, r.buf)
      /\ r.on \in BOOLEAN /\ r.lon \in BOOLEAN /\ r.why \in { "unknown", "local", "remote" }
      /\ ~r.on => n = 0 /\ (~f_remote \/ (remote.closed /\ remote.read = remote.written))
  BY <1>1, <1>2, Received
<1>5. /\ l.n = m /\ Reads(local, lbuf, m, l.buf)
      /\ l.on \in BOOLEAN /\ l.end \in BOOLEAN /\ l.why \in { "unknown", "local", "remote" }
      /\ l.end => m = 0 /\ l.buf = lbuf /\ local.closed /\ local.read = local.written
  BY <1>1, <1>3, <1>4, ReadIn
<1>6. /\ remote' = [remote EXCEPT !.read = @ + r.n]
      /\ local' = [local EXCEPT !.read = @ + l.n]
      /\ f_local' = l.on
      /\ f_remote' = (r.on /\ ~(~l.on /\ opts.local = "hold"))
      /\ reason' = l.why
      /\ shut' = Shuts(l.end)
      /\ \/ /\ ~(l.buf # <<>> /\ Shuts(l.end))
            /\ FlushToRemote(l.buf) /\ FlushToLocal(r.buf)
            /\ pc' = pc
         \/ /\ pc' = "killed"
            /\ lbuf' = l.buf /\ rbuf' = r.buf
            /\ UNCHANGED <<toRemote, toLocal, torn, damaged>>
  BY <1>1, <1>2, <1>3, Zenon
<1>7. Iterates(r, n, l, m)
  BY <1>4, <1>5, <1>6 DEF Iterates, Shuts
<1> QED
  BY <1>7 DEF Repeat

LEMMA RepeatStep == IInv /\ Repeat => IInv'
<1> SUFFICES ASSUME IInv, Repeat PROVE IInv'
  OBVIOUS
<1> USE DEF IInv
<1>1. PICK n, m, r, l : Iterates(r, n, l, m)
  BY IterationOf
<1>2. /\ pc = "relay" /\ pc' \in { "relay", "killed" }
      /\ UNCHANGED <<opts, timer, proxy_auth, dest_addr, relay_lost, password, sent, peer,
                     sockets, asked, redirected, answer, unread, lines, listening>>
  BY <1>1, IterationOf DEF Iterates
<1>3. NegotiationInv'
  <2>1. \/ pc' = pc /\ sockets' = sockets
        \/ pc' \in Ended /\ sockets' \in Nat /\ sockets' <= 1
    BY <1>2 DEF Ended, NegotiationInv, NegotiationTypeOK, SocketInv
  <2> QED
    BY <1>2, <2>1, RelayingStep
<1>4. /\ n \in Nat /\ m \in Nat
      /\ remote.read + n <= remote.written /\ local.read + m <= local.written
      /\ Sequence(r.buf) /\ Len(r.buf) <= BufferSize /\ Sequence(l.buf) /\ Len(l.buf) <= BufferSize
  BY <1>1 DEF Iterates, Reads
<1>5. /\ remote' \in Sides /\ remote'.read = remote.read + n
      /\ remote'.written = remote.written /\ remote'.closed = remote.closed
      /\ local' \in Sides /\ local'.read = local.read + m
      /\ local'.written = local.written /\ local'.closed = local.closed
  <2>1. remote \in Sides /\ local \in Sides
    BY DEF RelayInv, TypeOK
  <2>2. remote' = [remote EXCEPT !.read = @ + n] /\ local' = [local EXCEPT !.read = @ + m]
    BY <1>1 DEF Iterates
  <2> QED
    BY <1>4, <2>1, <2>2 DEF Sides
<1>6. /\ (opts.local # "hold" /\ ~remote.closed) => Len(toRemote) + Len(l.buf) = local.read + m
      /\ (~damaged /\ ~remote.closed) =>
           Len(toRemote) + Len(l.buf) = local.read + m /\ Follows(toRemote, l.buf)
  BY <1>1, ReadingOut DEF Iterates
<1>7. ~torn => Len(toLocal) + Len(r.buf) = remote.read + n /\ Follows(toLocal, r.buf)
  <2>1. pc # "killed" /\ Reads(remote, rbuf, n, r.buf)
    BY <1>1, <1>2 DEF Iterates
  <2> QED
    BY <2>1, ReadingIn
<1>8. /\ Sequence(lbuf) /\ Sequence(rbuf) /\ Sequence(toRemote) /\ Sequence(toLocal)
      /\ torn \in BOOLEAN /\ damaged \in BOOLEAN /\ (~damaged => InOrder(toRemote)) /\ (~torn => InOrder(toLocal))
  BY DEF RelayInv, TypeOK, Outward, Inward
<1>9. EndInv'
  <2>1. /\ ~r.on => n = 0 /\ (~f_remote \/ (remote.closed /\ remote.read = remote.written))
        /\ f_remote' = (r.on /\ ~(~l.on /\ opts.local = "hold"))
        /\ shut' = (shut \/ (l.end /\ opts.local # "hold"))
        /\ r.on \in BOOLEAN /\ l.on \in BOOLEAN /\ l.end \in BOOLEAN
    BY <1>1 DEF Iterates
  <2>2. opts.local = "hold" => ~shut'
    BY <2>1 DEF RelayInv, EndInv
  <2>3. ASSUME opts.local # "hold", ~f_remote'
        PROVE  remote.closed /\ remote.read + n = remote.written
    <3>1. ~r.on
      BY <2>1, <2>3
    <3>2. n = 0 /\ (~f_remote \/ (remote.closed /\ remote.read = remote.written))
      BY <2>1, <3>1
    <3> QED
      BY <2>3, <3>2, RelayTypes DEF RelayInv, EndInv
  <2> QED
    BY <1>2, <1>5, <2>2, <2>3 DEF EndInv
<1>10. /\ f_local' \in BOOLEAN /\ f_remote' \in BOOLEAN
       /\ reason' \in { "unknown", "local", "remote" } /\ shut' \in BOOLEAN /\ listening' \in 0 .. 2
  BY <1>1, <1>2 DEF Iterates, RelayInv, TypeOK
<1>11. CASE FlushToRemote(l.buf) /\ FlushToLocal(r.buf) /\ pc' = pc
  <2>1. /\ Sequence(toRemote') /\ Sequence(lbuf') /\ Len(lbuf') <= Len(l.buf)
        /\ damaged' \in BOOLEAN /\ (damaged => damaged')
        /\ remote.closed => toRemote' = toRemote
        /\ ~remote.closed => Len(toRemote') + Len(lbuf') = Len(toRemote) + Len(l.buf)
        /\ (~remote.closed /\ ~damaged' /\ InOrder(toRemote) /\ Follows(toRemote, l.buf)) =>
             InOrder(toRemote') /\ Follows(toRemote', lbuf')
    BY <1>4, <1>8, <1>11, FlushedOut
  <2>2. /\ Sequence(toLocal') /\ Sequence(rbuf') /\ Len(rbuf') <= Len(r.buf)
        /\ torn' \in BOOLEAN /\ (torn => torn')
        /\ ~torn' => /\ rbuf' = <<>> /\ Len(toLocal') = Len(toLocal) + Len(r.buf)
                     /\ InOrder(toLocal) /\ Follows(toLocal, r.buf) => InOrder(toLocal')
    BY <1>4, <1>8, <1>11, FlushedIn
  <2>3. Len(lbuf') <= BufferSize /\ Len(rbuf') <= BufferSize
    <3>1. Len(lbuf') \in Nat /\ Len(rbuf') \in Nat /\ Len(l.buf) \in Nat /\ Len(r.buf) \in Nat /\ BufferSize \in Nat
      BY <1>4, <2>1, <2>2, RelayTypes DEF Sequence, RelayInv
    <3> QED
      BY <1>4, <2>1, <2>2, <3>1
  <2>4. TypeOK'
    <3>1. NegotiationTypeOK'
      BY <1>3 DEF NegotiationInv
    <3>2. local'.read <= local'.written /\ remote'.read <= remote'.written
      BY <1>4, <1>5
    <3> QED
      BY <1>5, <1>10, <2>1, <2>2, <2>3, <3>1, <3>2 DEF TypeOK
  <2>5. Outward'
    <3>1. (opts'.local # "hold" /\ ~remote'.closed) => Len(toRemote') + Len(lbuf') = local'.read
      BY <1>2, <1>5, <1>6, <2>1
    <3>2. (~damaged' /\ ~remote'.closed) =>
            Len(toRemote') + Len(lbuf') = local'.read /\ InOrder(toRemote') /\ Follows(toRemote', lbuf')
      BY <1>5, <1>6, <1>8, <2>1
    <3>3. ~damaged' => InOrder(toRemote')
      BY <1>5, <1>8, <2>1, <3>2
    <3> QED
      BY <1>2, <3>1, <3>2, <3>3 DEF Outward, InOrder, Follows
  <2>6. Inward'
    <3>1. ~torn' => rbuf' = <<>> /\ Len(toLocal') = remote'.read /\ InOrder(toLocal')
      BY <1>5, <1>7, <1>8, <2>2
    <3> QED
      BY <3>1 DEF Inward, InOrder
  <2> QED
    BY <1>3, <1>9, <2>1, <2>2, <2>4, <2>5, <2>6 DEF RelayInv, Sequence
<1>12. CASE /\ pc' = "killed" /\ lbuf' = l.buf /\ rbuf' = r.buf
            /\ UNCHANGED <<toRemote, toLocal, torn, damaged>>
  <2>1. TypeOK'
    <3>1. NegotiationTypeOK'
      BY <1>3 DEF NegotiationInv
    <3>2. local'.read <= local'.written /\ remote'.read <= remote'.written
      BY <1>4, <1>5
    <3> QED
      BY <1>4, <1>5, <1>8, <1>10, <1>12, <3>1, <3>2 DEF TypeOK
  <2>2. Outward'
    BY <1>2, <1>5, <1>6, <1>8, <1>12 DEF Outward, InOrder, Follows
  <2>3. Inward'
    BY <1>8, <1>12 DEF Inward, InOrder
  <2> QED
    BY <1>3, <1>4, <1>8, <1>9, <1>12, <2>1, <2>2, <2>3 DEF RelayInv, Sequence
<1> QED
  BY <1>1, <1>11, <1>12 DEF Iterates

-----------------------------------------------------------------------------
(* The other steps.                                                         *)

LEMMA RelayingDoneStep == IInv /\ RelayingDone => IInv'
<1> SUFFICES ASSUME IInv, RelayingDone PROVE IInv'
  OBVIOUS
<1> USE DEF IInv
<1>1. /\ pc = "relay" /\ ~f_local /\ ~f_remote
      /\ UNCHANGED <<opts, timer, proxy_auth, dest_addr, relay_lost, password, sent, peer,
                     asked, redirected, answer, unread, lines>>
      /\ UNCHANGED rvars
      /\ \/ opts.local = "hold" /\ pc' = "accept_again" /\ sockets' = sockets
         \/ pc' = "done" /\ sockets' = sockets - 1
  BY DEF RelayingDone
<1>2. NegotiationInv'
  <2>1. sockets = 1
    BY <1>1 DEF NegotiationInv, SocketInv, Relaying
  <2> QED
    BY <1>1, <2>1, RelayingStep DEF Relaying, Ended
<1>3. TypeOK'
  BY <1>1, <1>2 DEF RelayInv, TypeOK, NegotiationInv, rvars
<1>4. Outward' /\ Inward' /\ EndInv'
  BY <1>1 DEF RelayInv, Outward, Inward, EndInv, InOrder, rvars
<1> QED
  BY <1>1, <1>2, <1>3, <1>4 DEF RelayInv, Sequence, rvars

LEMMA AcceptStep == IInv /\ Accept => IInv'
<1> SUFFICES ASSUME IInv, Accept PROVE IInv'
  OBVIOUS
<1> USE DEF IInv
<1>1. /\ pc \in { "accept", "accept_again" } /\ sockets' = sockets
      /\ UNCHANGED <<opts, timer, proxy_auth, dest_addr, relay_lost, password, sent, peer,
                     asked, redirected, answer, unread, lines>>
      /\ \/ pc' \in { "fatal", "done" } /\ UNCHANGED rvars
         \/ /\ pc' = IF pc = "accept" THEN "connect" ELSE "relay"
            /\ listening' \in 0 .. 2
            /\ local' = [local EXCEPT !.closed = FALSE]
            /\ damaged' = (damaged \/ lbuf # <<>>)
            /\ lbuf' = <<>> /\ rbuf' = <<>>
            /\ f_local' = TRUE /\ f_remote' = TRUE
            /\ reason' = "unknown"
            /\ UNCHANGED <<remote, toRemote, toLocal, shut, torn>>
  BY DEF Accept, Fatal, RelayInv, TypeOK
<1>2. NegotiationInv'
  <2>1. sockets \in Nat /\ sockets <= 1
    BY DEF NegotiationInv, NegotiationTypeOK, SocketInv
  <2>2. \/ pc \in Relaying /\ pc' \in Relaying
        \/ pc = "accept" /\ pc' = "connect"
        \/ pc' \in Ended
    BY <1>1 DEF Relaying, Ended
  <2> QED
    BY <1>1, <2>1, <2>2, RelayingStep
<1>3. CASE pc' \in { "fatal", "done" } /\ UNCHANGED rvars
  <2>1. TypeOK'
    BY <1>2, <1>3 DEF RelayInv, TypeOK, NegotiationInv, rvars
  <2>2. Outward' /\ Inward'
    BY <1>1, <1>3 DEF RelayInv, Outward, Inward, InOrder, rvars
  <2>3. EndInv'
    <3>1. pc = "accept" => asked = 0
      BY DEF NegotiationInv, AskInv
    <3> QED
      BY <1>1, <1>3, <3>1 DEF RelayInv, EndInv, rvars
  <2> QED
    BY <1>2, <1>3, <2>1, <2>2, <2>3 DEF RelayInv, Sequence, rvars
<1>4. CASE /\ pc' = IF pc = "accept" THEN "connect" ELSE "relay"
           /\ listening' \in 0 .. 2
           /\ local' = [local EXCEPT !.closed = FALSE]
           /\ damaged' = (damaged \/ lbuf # <<>>)
           /\ lbuf' = <<>> /\ rbuf' = <<>>
           /\ f_local' = TRUE /\ f_remote' = TRUE
           /\ reason' = "unknown"
           /\ UNCHANGED <<remote, toRemote, toLocal, shut, torn>>
  <2>1. local' \in Sides /\ local'.read = local.read /\ local'.written = local.written
    BY <1>4 DEF RelayInv, TypeOK, Sides
  <2>2. Sequence(<<>>) /\ Len(<<>>) = 0 /\ BufferSize \in Nat
    BY EmptySequence, RelayTypes DEF RelayInv
  <2>3. TypeOK'
    <3>1. NegotiationTypeOK'
      BY <1>2 DEF NegotiationInv
    <3>2. /\ local'.read <= local'.written /\ damaged' \in BOOLEAN
          /\ Len(lbuf') <= BufferSize /\ Len(rbuf') <= BufferSize
      BY <1>4, <2>1, <2>2 DEF RelayInv, TypeOK
    <3> QED
      BY <1>4, <2>1, <3>1, <3>2 DEF RelayInv, TypeOK
  <2>4. Outward'
    <3>1. pc = "accept" => lbuf = <<>>
      BY DEF RelayInv, Outward
    <3>2. pc = "accept_again" => opts.local = "hold"
      BY DEF RelayInv, EndInv
    <3>3. lbuf # <<>> => damaged'
      BY <1>4
    <3>4. lbuf' = lbuf \/ (damaged' /\ opts'.local = "hold")
      BY <1>1, <1>4, <3>1, <3>2, <3>3
    <3>5. damaged => damaged'
      BY <1>4
    <3>6. Len(lbuf') = 0 /\ lbuf' = <<>>
      BY <1>4, <2>2
    <3> QED
      BY <1>1, <1>4, <2>1, <3>4, <3>5, <3>6 DEF RelayInv, Outward, InOrder
  <2>5. Inward'
    BY <1>1, <1>4 DEF RelayInv, Inward, InOrder
  <2>6. EndInv'
    BY <1>1, <1>4 DEF RelayInv, EndInv
  <2> QED
    BY <1>2, <1>4, <2>2, <2>3, <2>4, <2>5, <2>6 DEF RelayInv, Sequence
<1> QED
  BY <1>1, <1>3, <1>4

LEMMA SideStep ==
  ASSUME IInv, LocalWrites \/ LocalCloses \/ RemoteWrites \/ RemoteCloses
  PROVE  IInv'
<1> USE DEF IInv
<1>1. /\ UNCHANGED <<nvars, lbuf, rbuf, f_local, f_remote, reason, toRemote,
                     toLocal, shut, listening, torn, damaged>>
      /\ pc = "relay"
      /\ \/ UNCHANGED remote /\ local' = [local EXCEPT !.written = @ + 1]
         \/ UNCHANGED remote /\ local' = [local EXCEPT !.closed = TRUE]
         \/ UNCHANGED local /\ ~remote.closed /\ remote' = [remote EXCEPT !.written = @ + 1]
         \/ UNCHANGED local /\ ~remote.closed /\ remote' = [remote EXCEPT !.closed = TRUE]
  BY DEF LocalWrites, LocalCloses, RemoteWrites, RemoteCloses
<1>2. NegotiationInv'
  BY <1>1, RelayingStep DEF nvars
<1>3. /\ local' \in Sides /\ local'.read = local.read /\ local'.read <= local'.written
      /\ remote' \in Sides /\ remote'.read = remote.read /\ remote'.read <= remote'.written
      /\ remote.closed => remote' = remote
      /\ ~remote'.closed => ~remote.closed
  <2>1. local \in Sides /\ remote \in Sides /\ local.read <= local.written /\ remote.read <= remote.written
    BY DEF RelayInv, TypeOK
  <2>2. CASE UNCHANGED remote /\ local' = [local EXCEPT !.written = @ + 1]
    BY <2>1, <2>2 DEF Sides
  <2>3. CASE UNCHANGED remote /\ local' = [local EXCEPT !.closed = TRUE]
    BY <2>1, <2>3 DEF Sides
  <2>4. CASE UNCHANGED local /\ ~remote.closed /\ remote' = [remote EXCEPT !.written = @ + 1]
    BY <2>1, <2>4 DEF Sides
  <2>5. CASE UNCHANGED local /\ ~remote.closed /\ remote' = [remote EXCEPT !.closed = TRUE]
    BY <2>1, <2>5 DEF Sides
  <2> QED
    BY <1>1, <2>2, <2>3, <2>4, <2>5
<1>4. TypeOK'
  BY <1>1, <1>2, <1>3 DEF RelayInv, TypeOK, NegotiationInv
<1>5. Outward' /\ Inward'
  BY <1>1, <1>3 DEF RelayInv, Outward, Inward, InOrder, nvars
<1>6. EndInv'
  BY <1>1, <1>3 DEF RelayInv, EndInv, nvars
<1> QED
  BY <1>1, <1>2, <1>4, <1>5, <1>6 DEF RelayInv, Sequence

(* While the connection is made, no byte moves.                             *)
LEMMA NegotiatedStep ==
  ASSUME IInv, Negotiate \/ PeerCloses \/ Tick, UNCHANGED rvars
  PROVE  IInv'
<1> USE DEF IInv
<1>1. NegotiationInv' /\ Negotiating
  BY NegotiatingStep
<1>2. pc \notin { "accept", "accept_again", "done", "killed" }
  BY <1>1 DEF Negotiating, Waiting
<1>3. TypeOK'
  BY <1>1 DEF RelayInv, TypeOK, NegotiationInv, rvars
<1>4. Outward' /\ Inward' /\ EndInv'
  BY <1>1, <1>2 DEF RelayInv, Outward, Inward, EndInv, InOrder, Negotiating, rvars
<1> QED
  BY <1>1, <1>3, <1>4 DEF RelayInv, Sequence, rvars

LEMMA InvInit == Init => IInv
<1> SUFFICES ASSUME Init PROVE IInv
  OBVIOUS
<1>1. opts.timeout \in Nat /\ opts.method \in Methods /\ MaxHeaders \in Nat
  BY NegotiationAssumption DEF Init, NegotiationInit, OptionRecord
<1>2. pc \in { "connect", "accept" }
  BY DEF Init, NegotiationInit
<1>3. NegotiationTypeOK
  <2>1. opts \in Options /\ timer \in 0 .. opts.timeout /\ lines \in 0 .. MaxHeaders
    BY <1>1 DEF Init, NegotiationInit
  <2>2. proxy_auth \in BOOLEAN /\ dest_addr \in BOOLEAN /\ relay_lost \in BOOLEAN /\ redirected \in BOOLEAN
    BY DEF Init, NegotiationInit
  <2>3. /\ password \in { "real", "erased" } /\ sent \in { "none", "real", "erased" }
        /\ peer \in { "speaks", "closed", "reset" } /\ sockets \in Nat /\ asked \in Nat /\ unread \in Nat
    BY DEF Init, NegotiationInit
  <2> QED
    BY <1>2, <2>1, <2>2, <2>3 DEF NegotiationTypeOK
<1>4. StageInv /\ SocketInv /\ AlarmInNegotiation
  BY <1>2 DEF Init, NegotiationInit, StageInv, SocketInv, AlarmInNegotiation, RelayGranted, Relaying,
              Waiting, HeaderLoops, Ended
<1>5. PasswordInv
  BY <1>2 DEF Init, NegotiationInit, PasswordInv, RealPassword
<1>6. AskInv
  BY <1>2 DEF Init, NegotiationInit, AskInv, AskedTwice, Challenges
<1>7. Sequence(<<>>) /\ Len(<<>>) = 0 /\ BufferSize \in Nat
  BY EmptySequence, BufferAssumption
<1>8. TypeOK
  <2>1. Side \in Sides /\ Side.read <= Side.written
    BY DEF Side, Sides
  <2>2. f_local \in BOOLEAN /\ f_remote \in BOOLEAN /\ shut \in BOOLEAN /\ torn \in BOOLEAN /\ damaged \in BOOLEAN
    BY DEF Init
  <2>3. local = Side /\ remote = Side /\ Len(lbuf) <= BufferSize /\ Len(rbuf) <= BufferSize
    BY <1>7 DEF Init
  <2>4. reason \in { "unknown", "local", "remote" } /\ listening \in 0 .. 2
    BY DEF Init
  <2> QED
    BY <1>3, <2>1, <2>2, <2>3, <2>4 DEF TypeOK
<1>9. InOrder(<<>>)
  BY <1>7 DEF InOrder
<1>10. Outward /\ Inward /\ EndInv
  BY <1>2, <1>7, <1>9 DEF Init, NegotiationInit, Outward, Inward, EndInv, Side
<1> QED
  BY <1>3, <1>4, <1>5, <1>6, <1>7, <1>8, <1>10 DEF IInv, NegotiationInv, RelayInv, Init

LEMMA InvStep == IInv /\ [Next]_vars => IInv'
<1> SUFFICES ASSUME IInv, [Next]_vars PROVE IInv'
  OBVIOUS
<1>1. CASE UNCHANGED vars
  <2>1. NegotiationInv'
    BY <1>1, RelayingStep DEF IInv, vars, nvars
  <2> QED
    BY <1>1, <2>1 DEF IInv, RelayInv, TypeOK, NegotiationInv, Sequence, Outward, Inward, EndInv, InOrder,
                      vars, nvars, rvars
<1>2. CASE (Negotiate \/ PeerCloses \/ Tick) /\ UNCHANGED rvars
  BY <1>2, NegotiatedStep
<1>3. CASE LocalWrites \/ LocalCloses \/ RemoteWrites \/ RemoteCloses
  BY <1>3, SideStep
<1> QED
  BY <1>1, <1>2, <1>3, RepeatStep, RelayingDoneStep, AcceptStep
  DEF Next, Program, Environment, Alarm, Idle

LEMMA Invariance == Spec => []IInv
BY InvInit, InvStep, PTL DEF Spec

-----------------------------------------------------------------------------
(* The variables keep their types, whatever the command line, the proxy and *)
(* the two sides do: the timer never exceeds -w, the buffers are never      *)
(* overrun, and no side's bytes are read before they were written.          *)
THEOREM TypeCorrect == Spec => []TypeOK
<1>1. IInv => TypeOK
  BY DEF IInv, RelayInv
<1> QED
  BY <1>1, Invariance, PTL

(* Nothing is relayed before the proxy granted it, the relay begins with    *)
(* the first byte of the destination, one connection is open at most, the   *)
(* password is sent as it was given, and the alarm runs while the           *)
(* connection is made and at no other time.                                 *)
THEOREM NegotiationSoundHolds == Spec => []NegotiationSound
<1>1. IInv => StreamAligned
  BY DEF IInv, NegotiationInv, StageInv, StreamAligned, Relaying, Ended
<1>2. IInv => NegotiationSound
  BY <1>1 DEF IInv, NegotiationInv, StageInv, SocketInv, PasswordInv, AskInv, NegotiationSound, OneConnection
<1> QED
  BY <1>2, Invariance, PTL

(* Each side receives what the other wrote, in order and none of it twice,  *)
(* over all connections of -P; all of it when the destination ended the     *)
(* relay; and the end of a local connection leaves a held session open.     *)
THEOREM RelaySoundHolds == Spec => []RelaySound
<1>1. IInv => AllReceived
  BY DEF IInv, RelayInv, Inward, EndInv, AllReceived
<1>2. IInv => SessionHeld
  BY DEF IInv, RelayInv, EndInv, NegotiationInv, SocketInv, Relaying, SessionHeld
<1>3. IInv => RelaySound
  BY <1>1, <1>2 DEF IInv, RelayInv, Outward, Inward, RemoteInOrder, LocalInOrder, RelaySound
<1> QED
  BY <1>3, Invariance, PTL

(* The destination is told of the end of the local side only after all that *)
(* the local side wrote, if the program survives to say so.                 *)
THEOREM EndComesLastHolds == Spec => EndComesLast
<1>1. IInv /\ [Next]_vars =>
        [ (shut' /\ ~shut /\ ~remote.closed /\ pc' # "killed") => Len(toRemote') = local.written ]_vars
  <2> SUFFICES ASSUME IInv, [Next]_vars, shut', ~shut, ~remote.closed, pc' # "killed"
               PROVE  Len(toRemote') = local.written
    OBVIOUS
  <2>1. Repeat
    BY DEF Next, Program, Environment, Alarm, Idle, RelayingDone, Accept,
           LocalWrites, LocalCloses, RemoteWrites, RemoteCloses, vars, rvars
  <2>2. PICK n, m, r, l : Iterates(r, n, l, m)
    BY <2>1, IterationOf DEF IInv
  <2>3. /\ l.end /\ opts.local # "hold"
        /\ lbuf = l.buf /\ local.read = local.written
        /\ ~(l.buf # <<>> /\ shut') /\ FlushToRemote(l.buf)
    BY <2>2 DEF Iterates
  <2>4. lbuf = <<>> /\ toRemote' = toRemote
    BY <2>3 DEF FlushToRemote
  <2>5. Len(toRemote) + Len(lbuf) = local.read /\ Len(toRemote) \in Nat
    BY <2>3 DEF IInv, RelayInv, Outward, Sequence
  <2> QED
    BY <2>3, <2>4, <2>5, EmptySequence
<1> QED
  BY <1>1, Invariance, PTL DEF Spec, EndComesLast

=============================================================================
