------------------------------ MODULE GitProxy -------------------------------
(***************************************************************************)
(* The whole of scripts/oe-git-proxy-socks.c: ProxyNegotiation, then       *)
(* do_repeater between the local side and the destination, and with -P the *)
(* next local connection to the same remote session.                       *)
(*                                                                         *)
(* What a side writes is numbered from 1, byte by byte, so that a sequence *)
(* of bytes is in order when it is 1, 2, 3 ...  An iteration of            *)
(* do_repeater's loop is one action; the two sides write and close at any  *)
(* time between.                                                           *)
(***************************************************************************)
EXTENDS ProxyNegotiation, Sequences

CONSTANT BufferSize      (* sizeof(lbuf) and sizeof(rbuf)                    *)

ASSUME BufferAssumption == BufferSize \in Nat \ {0}

VARIABLES
  local, remote, (* each side: bytes written, bytes of them that were      *)
                 (* read, whether it closed                                *)
  lbuf, rbuf,    (* the buffers                                            *)
  f_local, f_remote,
  reason,        (* close_reason                                           *)
  toRemote,      (* the bytes each side received                           *)
  toLocal,
  shut,          (* shutdown(remote, 1) was called                         *)
  listening,     (* sockets that listen on the local port                  *)
  torn,          (* a write to the local side took only part of rbuf       *)
  damaged        (* memcpy moved lbuf over itself, or what was left of it   *)
                 (* was forgotten with the local connection                *)

rvars == <<local, remote, lbuf, rbuf, f_local, f_remote, reason, toRemote,
           toLocal, shut, listening, torn, damaged>>
vars  == <<nvars, rvars>>

Side  == [ written |-> 0, read |-> 0, closed |-> FALSE ]
Sides == [ written : Nat, read : Nat, closed : BOOLEAN ]

TypeOK ==
  /\ NegotiationTypeOK
  /\ local \in Sides /\ local.read <= local.written
  /\ remote \in Sides /\ remote.read <= remote.written
  /\ Len(lbuf) <= BufferSize
  /\ Len(rbuf) <= BufferSize
  /\ f_local \in BOOLEAN /\ f_remote \in BOOLEAN
  /\ reason \in { "unknown", "local", "remote" }
  /\ shut \in BOOLEAN
  /\ listening \in 0 .. 2
  /\ torn \in BOOLEAN /\ damaged \in BOOLEAN

Init ==
  /\ NegotiationInit
  /\ local = Side /\ remote = Side
  /\ lbuf = <<>> /\ rbuf = <<>>
  /\ f_local = TRUE /\ f_remote = TRUE
  /\ reason = "unknown"
  /\ toRemote = <<>> /\ toLocal = <<>>
  /\ shut = FALSE
  /\ listening = 0
  /\ torn = FALSE /\ damaged = FALSE

-----------------------------------------------------------------------------
Bytes(from, n) == [i \in 1 .. n |-> from + i]
Least(a, b) == IF a < b THEN a ELSE b

(* What recv or read finds: bytes, the end, or nothing yet.                 *)
Ready(side) == side.read < side.written \/ side.closed
CanRead(side, buf) == 0 .. Least(side.written - side.read, BufferSize - Len(buf))

(* What is left of a buffer after its first n bytes, moved to its top.      *)
(* memcpy may copy from below or from above, which differs where source and *)
(* destination overlap.                                                     *)
Rest(buf, n) == SubSeq(buf, n + 1, Len(buf))
Overlaps(buf, n) == n < Len(buf) - n
FromAbove(buf, n) ==
  LET copied[k \in 0 .. Len(buf) - n] ==       (* after the last k bytes     *)
        IF k = 0 THEN buf ELSE LET to == Len(buf) - n - k + 1
                               IN [copied[k - 1] EXCEPT ![to] = copied[k - 1][to + n]]
  IN SubSeq(copied[Len(buf) - n], 1, Len(buf) - n)
memcpy(buf, n) == IF Overlaps(buf, n) THEN { Rest(buf, n), FromAbove(buf, n) } ELSE { Rest(buf, n) }

(* remote => local: recv, when select found the socket readable.            *)
RecvRemote_EndFirst(n) ==
  IF f_remote /\ Len(rbuf) < BufferSize /\ Ready(remote)
  THEN IF ~remote.closed
       THEN [ buf |-> rbuf \o Bytes(remote.read, n), n |-> n, on |-> f_remote, lon |-> f_local, why |-> reason ]
       ELSE [ buf |-> rbuf, n |-> 0, on |-> FALSE, lon |-> FALSE, why |-> "remote" ]
  ELSE [ buf |-> rbuf, n |-> 0, on |-> f_remote, lon |-> f_local, why |-> reason ]
RecvRemote_LocalGoesOn(n) ==
  IF f_remote /\ Len(rbuf) < BufferSize /\ Ready(remote)
  THEN IF remote.read < remote.written
       THEN [ buf |-> rbuf \o Bytes(remote.read, n), n |-> n, on |-> f_remote, lon |-> f_local, why |-> reason ]
       ELSE [ buf |-> rbuf, n |-> 0, on |-> FALSE, lon |-> f_local, why |-> "remote" ]
  ELSE [ buf |-> rbuf, n |-> 0, on |-> f_remote, lon |-> f_local, why |-> reason ]
RecvRemote(n) ==
  IF f_remote /\ Len(rbuf) < BufferSize /\ Ready(remote)
  THEN IF remote.read < remote.written
       THEN [ buf |-> rbuf \o Bytes(remote.read, n), n |-> n, on |-> f_remote, lon |-> f_local, why |-> reason ]
       ELSE [ buf |-> rbuf, n |-> 0, on |-> FALSE, lon |-> FALSE, why |-> "remote" ]
  ELSE [ buf |-> rbuf, n |-> 0, on |-> f_remote, lon |-> f_local, why |-> reason ]

(* local => remote: the same of the local side, after what RecvRemote did.  *)
ReadLocal_EndFirst(m, r) ==
  IF f_local /\ Len(lbuf) < BufferSize /\ Ready(local)
  THEN IF ~local.closed
       THEN [ buf |-> lbuf \o Bytes(local.read, m), n |-> m, on |-> r.lon, why |-> r.why, end |-> FALSE ]
       ELSE [ buf |-> lbuf, n |-> 0, on |-> FALSE, why |-> "local", end |-> TRUE ]
  ELSE [ buf |-> lbuf, n |-> 0, on |-> r.lon, why |-> r.why, end |-> FALSE ]
ReadLocal(m, r) ==
  IF f_local /\ Len(lbuf) < BufferSize /\ Ready(local)
  THEN IF local.read < local.written
       THEN [ buf |-> lbuf \o Bytes(local.read, m), n |-> m, on |-> r.lon, why |-> r.why, end |-> FALSE ]
       ELSE [ buf |-> lbuf, n |-> 0, on |-> FALSE, why |-> "local", end |-> TRUE ]
  ELSE [ buf |-> lbuf, n |-> 0, on |-> r.lon, why |-> r.why, end |-> FALSE ]

(* The end of the local side is passed on, unless the session is held.      *)
Shuts(end) == shut \/ (end /\ opts.local # "hold")

(* Data that is there is read, at least one byte of it.                     *)
Amount(n, on, side, buf) ==
  (on /\ Len(buf) < BufferSize /\ side.read < side.written) <=> n > 0

(* Flush lbuf by send, of which the socket takes a part or all.  After our  *)
(* shutdown, or the remote's end, a send may be the last thing we do.       *)
FlushToRemote(buf) ==
  IF buf = <<>> THEN UNCHANGED <<toRemote, damaged>> /\ lbuf' = buf
  ELSE \E n \in 1 .. Len(buf) :
         /\ toRemote' = IF remote.closed THEN toRemote ELSE toRemote \o SubSeq(buf, 1, n)
         /\ lbuf' \in memcpy(buf, n)
         /\ damaged' = (damaged \/ Overlaps(buf, n))

(* Flush rbuf by write.  rbuf_len is counted down first, and the rest is    *)
(* moved only where fewer bytes were written than are left.                 *)
FlushToLocal(buf) ==
  IF buf = <<>> THEN UNCHANGED <<toLocal, torn>> /\ rbuf' = buf
  ELSE \E n \in 1 .. Len(buf) :
         /\ toLocal' = toLocal \o SubSeq(buf, 1, n)
         /\ rbuf' \in IF n < Len(buf) - n THEN memcpy(buf, n) ELSE { SubSeq(buf, 1, Len(buf) - n) }
         /\ torn' = (torn \/ n < Len(buf))

(* One iteration of the loop of do_repeater, and the break of -P.           *)
Repeat ==
  /\ pc = "relay" /\ (f_local \/ f_remote)
  /\ \/ f_remote /\ Len(rbuf) < BufferSize /\ Ready(remote)
     \/ f_local /\ Len(lbuf) < BufferSize /\ Ready(local)
  /\ \E n \in CanRead(remote, rbuf), m \in CanRead(local, lbuf) :
       LET r    == RecvRemote(n)
           l    == ReadLocal(m, r)
           shut1 == Shuts(l.end)
           held == ~l.on /\ opts.local = "hold"
       IN /\ Amount(n, f_remote, remote, rbuf)
          /\ Amount(m, f_local, local, lbuf)
          /\ remote' = [remote EXCEPT !.read = @ + r.n]
          /\ local' = [local EXCEPT !.read = @ + l.n]
          /\ f_local' = l.on
          /\ f_remote' = (r.on /\ ~held)
          /\ reason' = l.why
          /\ shut' = shut1
          /\ \/ /\ ~(l.buf # <<>> /\ shut1)
                /\ FlushToRemote(l.buf)
                /\ FlushToLocal(r.buf)
                /\ UNCHANGED pc
             \/ (* SIGPIPE, or an error *)
                /\ \/ l.buf # <<>> /\ (shut1 \/ remote.closed)
                   \/ r.buf # <<>> /\ local.closed
                /\ pc' = "killed"
                /\ lbuf' = l.buf /\ rbuf' = r.buf
                /\ UNCHANGED <<toRemote, toLocal, torn, damaged>>
  /\ UNCHANGED <<opts, timer, proxy_auth, dest_addr, relay_lost, password, sent, peer,
                 sockets, asked, redirected, answer, unread, lines, listening>>

(* do_repeater returns: the end, or with -P the wait for the next local     *)
(* connection.                                                              *)
RelayingDone ==
  /\ pc = "relay" /\ ~f_local /\ ~f_remote
  /\ IF reason = "local" /\ opts.local = "hold"
     THEN pc' = "accept_again" /\ UNCHANGED sockets
     ELSE pc' = "done" /\ sockets' = sockets - 1
  /\ UNCHANGED <<opts, timer, proxy_auth, dest_addr, relay_lost, password, sent, peer,
                 asked, redirected, answer, unread, lines, rvars>>

(* accept_connection: a new socket listens on the port, beside the one of   *)
(* an earlier call, which is never closed.  The end of stdin ends the wait. *)
Accept ==
  /\ pc \in { "accept", "accept_again" }
  /\ \/ /\ listening > 0 /\ ~opts.rebinds
        /\ Fatal
        /\ UNCHANGED <<sockets, rvars>>
     \/ /\ listening = 0 \/ opts.rebinds
        /\ pc' = "done"
        /\ UNCHANGED <<sockets, rvars>>
     \/ /\ listening = 0 \/ (opts.rebinds /\ listening < 2)
        /\ listening' = listening + 1
        /\ pc' = IF pc = "accept" THEN "connect" ELSE "relay"
        /\ local' = [local EXCEPT !.closed = FALSE]
        /\ damaged' = (damaged \/ lbuf # <<>>)
        /\ lbuf' = <<>> /\ rbuf' = <<>>
        /\ f_local' = TRUE /\ f_remote' = TRUE
        /\ reason' = "unknown"
        /\ UNCHANGED <<sockets, remote, toRemote, toLocal, shut, torn>>
  /\ UNCHANGED <<opts, timer, proxy_auth, dest_addr, relay_lost, password, sent, peer,
                 asked, redirected, answer, unread, lines>>

-----------------------------------------------------------------------------
(* The two sides.  A local connection numbers its bytes on where the one    *)
(* before it ended.                                                         *)
LocalWrites ==
  /\ pc = "relay" /\ ~local.closed /\ local.written < opts.bytes
  /\ local' = [local EXCEPT !.written = @ + 1]
  /\ UNCHANGED <<nvars, remote, lbuf, rbuf, f_local, f_remote, reason, toRemote,
                 toLocal, shut, listening, torn, damaged>>

LocalCloses ==
  /\ pc = "relay" /\ ~local.closed
  /\ local' = [local EXCEPT !.closed = TRUE]
  /\ UNCHANGED <<nvars, remote, lbuf, rbuf, f_local, f_remote, reason, toRemote,
                 toLocal, shut, listening, torn, damaged>>

RemoteWrites ==
  /\ pc = "relay" /\ ~remote.closed /\ remote.written < opts.bytes
  /\ remote' = [remote EXCEPT !.written = @ + 1]
  /\ UNCHANGED <<nvars, local, lbuf, rbuf, f_local, f_remote, reason, toRemote,
                 toLocal, shut, listening, torn, damaged>>

RemoteCloses ==
  /\ pc = "relay" /\ ~remote.closed
  /\ remote' = [remote EXCEPT !.closed = TRUE]
  /\ UNCHANGED <<nvars, local, lbuf, rbuf, f_local, f_remote, reason, toRemote,
                 toLocal, shut, listening, torn, damaged>>

Program == (Negotiate /\ UNCHANGED rvars) \/ Repeat \/ RelayingDone \/ Accept

Environment ==
  \/ PeerCloses /\ UNCHANGED rvars
  \/ LocalWrites \/ LocalCloses \/ RemoteWrites \/ RemoteCloses

Alarm == Tick /\ UNCHANGED rvars

(* Nothing more happens, or the program reads the end of the connection     *)
(* again and again.                                                         *)
Idle ==
  /\ pc \in Ended \/ (pc \in HeaderLoops /\ peer = "closed")
  /\ UNCHANGED vars

Next == Program \/ Environment \/ Alarm \/ Idle

Spec == Init /\ [][Next]_vars

(* The next iteration waits for the local side to take what is written.     *)
LocalMustTake == ~local.closed /\ (rbuf # <<>> \/ (f_remote /\ remote.read < remote.written))

(* The program runs when it can, and time passes.  No proxy has to answer,  *)
(* and none of the sides has to take what is sent to it.                    *)
FairSpec == Spec /\ WF_vars(Repeat /\ remote.closed /\ ~LocalMustTake) /\ WF_vars(RelayingDone)
                 /\ WF_vars(Alarm) /\ WF_vars(Connect /\ UNCHANGED rvars)
-----------------------------------------------------------------------------
Granted ==
  CASE opts.method = "direct" -> TRUE
    [] opts.method = "socks5" -> answer \in AddressTypes
    [] opts.method = "socks4" -> answer = "granted"
    [] opts.method = "http"   -> answer = "200"
    [] opts.method = "telnet" -> answer = "connected_to"

(* Nothing is relayed before the proxy granted the connection, whatever     *)
(* challenges, redirections, resets and timeouts came before.               *)
RelayGranted == pc \in { "relay", "accept_again" } => Granted

(* The relay begins with the first byte of the destination: no byte of the  *)
(* proxy's reply is left to be taken for it, and none is missing; but for   *)
(* an address of a type the program does not know.                          *)
StreamAligned == (pc = "relay" /\ answer # "unknown") => unread = 0

(* A connection is closed before the next is made, so that the program      *)
(* holds one at most.                                                       *)
OneConnection == sockets <= 1

(* An authentication carries the password that was given, although it is    *)
(* erased from the environment once it was sent; only after a redirection   *)
(* may it be sent once more, and then it is empty.                          *)
RealPassword == sent = "erased" => redirected

(* A proxy that challenges, and challenges again, is asked twice, and twice *)
(* at most after each redirection.                                          *)
AskedTwice == asked <= 2

(* -w limits the time for making the connection, and no other: a relay is   *)
(* never cut by the alarm of the negotiation, and a negotiation does not    *)
(* run without one.                                                         *)
AlarmInNegotiation ==
  /\ pc \in { "relay", "accept_again" } => timer = 0
  /\ (pc \in Waiting /\ opts.timeout > 0) => timer > 0

(* What holds while a connection is made.                                   *)
NegotiationSound ==
  /\ RelayGranted /\ StreamAligned /\ OneConnection
  /\ RealPassword /\ AskedTwice /\ AlarmInNegotiation

Connecting == opts.timeout > 0 /\ pc \in { "connect" } \cup Waiting
Settled    == pc \in Ended \/ pc = "relay"

(* "The '-w' option specifys timeout seconds for making connection with     *)
(* TARGET host": an attempt ends in a relay or an exit, although the proxy  *)
(* may challenge, fall silent or end its answer anywhere; or it comes to a  *)
(* redirection, behind which the alarm is armed anew, as often as it likes. *)
AttemptEnds ==
  Connecting ~> (Settled \/ (pc = "connect" /\ redirected /\ asked = 0))

InOrder(bytes) == \A i \in DOMAIN bytes : bytes[i] = i

(* The destination receives what the local side wrote, in order, none of it *)
(* twice, over all connections of -P; unless send takes a small part of     *)
(* what is there.                                                           *)
RemoteInOrder == ~damaged => InOrder(toRemote)

(* The local side receives what the destination wrote; unless a write takes *)
(* a part.                                                                  *)
LocalInOrder == ~torn => InOrder(toLocal)

(* When the program ends because the destination closed, the local side has *)
(* received all that the destination wrote, unless a write took a part.     *)
AllReceived ==
  (pc = "done" /\ asked > 0 /\ opts.local # "hold" /\ ~torn) => Len(toLocal) = remote.written

(* The destination is told of the end of the local side when it was sent    *)
(* everything before; otherwise the program does not survive.               *)
EndComesLast ==
  [][ (shut' /\ ~shut /\ ~remote.closed /\ pc' # "killed") => Len(toRemote') = local.written ]_vars

(* After the destination closed, the relay ends once the local side has     *)
(* taken what it wrote, or closed; with -P at the latest with the next      *)
(* local connection.                                                        *)
RelayEnds == (pc = "relay" /\ remote.closed) ~> (pc # "relay" \/ LocalMustTake)

(* With -P the end of a local connection leaves the remote session open.    *)
SessionHeld ==
  opts.local = "hold" =>
    /\ ~shut
    /\ pc = "accept_again" => sockets = 1

(* What holds of the bytes that are relayed, in both directions.            *)
RelaySound == RemoteInOrder /\ LocalInOrder /\ AllReceived /\ SessionHeld

(* Neither the making of a connection, but for redirections without end,    *)
(* nor a relay whose other side is gone goes on for ever.                   *)
ProxyEnds == AttemptEnds /\ RelayEnds
=============================================================================
