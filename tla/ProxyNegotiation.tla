-------------------------- MODULE ProxyNegotiation ---------------------------
(***************************************************************************)
(* How scripts/oe-git-proxy-socks.c (connect.c) comes to a connection with *)
(* its destination: main up to do_repeater, with the negotiations of       *)
(* SOCKS 5, SOCKS 4, HTTP and telnet proxies.  An action is what the       *)
(* program does between two calls that block; what a proxy answers is any  *)
(* of the answers the code tells apart, none at all, or the end of the     *)
(* connection.  A request of the program is one message.                   *)
(***************************************************************************)
EXTENDS Naturals, FiniteSets

CONSTANTS
  Options,       (* the command lines explored, records as in OptionRecord *)
  MaxHeaders     (* bound: header or telnet lines of one answer            *)

Methods == { "direct", "socks5", "socks4", "http", "telnet" }

(* local: stdin and stdout (-), a port (-p), a port and the remote session  *)
(* is held (-P).  timeout: -w, in ticks, 0 without.  password: it is in the *)
(* environment, or must be typed.  rebinds: the system lets a port be bound *)
(* while a socket still listens on it.  bytes: bound, what each side of     *)
(* the relay writes.                                                        *)
OptionRecord ==
  [ method : Methods, local : { "stdio", "port", "hold" }, timeout : Nat,
    resolve : { "local", "remote", "both" }, password : { "env", "tty" },
    rebinds : BOOLEAN, bytes : Nat ]

ASSUME NegotiationAssumption ==
  /\ Options \subseteq OptionRecord
  /\ MaxHeaders \in Nat

VARIABLES
  opts,
  pc,            (* where the program blocks, or how it ended              *)
  timer,         (* alarm(): ticks left, 0 when it is off                  *)
  proxy_auth,    (* proxy_auth_type is PROXY_AUTH_BASIC                    *)
  dest_addr,     (* dest_addr is set: the destination goes by its address  *)
  relay_lost,    (* a Location was read: relay_port is 0, and relay_host   *)
                 (* points into the frame of a call that ended             *)
  password,      (* "real", or "erased" by the memset after its use        *)
  sent,          (* the password of the last authentication sent           *)
  peer,          (* what the connection's other end did last               *)
  sockets,       (* connections to the proxy or the destination left open  *)
  asked,         (* connections tried since the last answer 302            *)
  redirected,    (* there was one                                          *)
  answer,        (* the last answer of the proxy that decided something    *)
  unread,        (* bytes of a SOCKS 5 reply that were not read             *)
  lines          (* lines read since                                       *)

nvars == <<opts, pc, timer, proxy_auth, dest_addr, relay_lost, password, sent,
           peer, sockets, asked, redirected, answer, unread, lines>>

Ended   == { "done", "fatal", "timed_out", "killed" }
Waiting == { "socks5_method", "socks5_userpass", "socks5_reply", "socks5_bound",
             "socks4_reply", "http_status", "http_200", "http_302", "http_auth", "telnet" }

NegotiationTypeOK ==
  /\ opts \in Options
  /\ pc \in { "accept", "connect", "relay", "accept_again" } \cup Ended \cup Waiting
  /\ timer \in 0 .. opts.timeout
  /\ proxy_auth \in BOOLEAN
  /\ dest_addr \in BOOLEAN
  /\ relay_lost \in BOOLEAN
  /\ password \in { "real", "erased" }
  /\ sent \in { "none", "real", "erased" }
  /\ peer \in { "speaks", "closed", "reset" }
  /\ sockets \in Nat
  /\ asked \in Nat
  /\ redirected \in BOOLEAN
  /\ unread \in Nat
  /\ lines \in 0 .. MaxHeaders

NegotiationInit ==
  /\ opts \in Options
  /\ pc = IF opts.local = "stdio" THEN "connect" ELSE "accept"
  /\ timer = 0
  /\ proxy_auth = FALSE
  /\ dest_addr = FALSE
  /\ relay_lost = FALSE
  /\ password = "real"
  /\ sent = "none"
  /\ peer = "speaks"
  /\ sockets = 0
  /\ asked = 0
  /\ redirected = FALSE
  /\ answer = "none"
  /\ unread = 0
  /\ lines = 0

-----------------------------------------------------------------------------
Fatal == pc' = "fatal"

(* set_timeout                                                              *)
ArmTimer   == timer' = opts.timeout
ClearTimer == timer' = 0

(* determine_relay_password or readpass, then the memset that erases the    *)
(* password: in the environment itself, or in the buffer of readpass.       *)
SendPassword ==
  /\ sent' = password
  /\ password' = IF opts.password = "env" THEN "erased" ELSE password

FirstWait ==
  CASE opts.method = "socks5" -> "socks5_method"  [] opts.method = "socks4" -> "socks4_reply"
    [] opts.method = "http"   -> "http_status"    [] opts.method = "telnet" -> "telnet"

(* The label retry: the timer, the connection, the destination's address    *)
(* (-R local only), and the first request.                                  *)
Connect ==
  /\ pc = "connect"
  /\ asked' = asked + 1
  /\ UNCHANGED <<opts, proxy_auth, relay_lost, redirected, answer, unread, lines>>
  /\ \/ (* open_connection or local_resolve fails *)
        /\ Fatal
        /\ \E s \in { 0, 1 } : sockets' = sockets + s
        /\ ArmTimer
        /\ UNCHANGED <<dest_addr, password, sent, peer>>
     \/ (* connect() outlasts the timer *)
        /\ opts.timeout > 0
        /\ pc' = "timed_out"
        /\ sockets' = sockets + 1
        /\ ArmTimer
        /\ UNCHANGED <<dest_addr, password, sent, peer>>
     \/ /\ ~relay_lost
        /\ sockets' = sockets + 1
        /\ peer' = "speaks"
        /\ dest_addr' = (opts.method \in { "socks4", "socks5" } /\ opts.resolve = "local")
        /\ IF opts.method = "direct"
           THEN pc' = "relay" /\ ClearTimer
           ELSE pc' = FirstWait /\ ArmTimer
        /\ IF opts.method = "http" /\ proxy_auth
           THEN SendPassword
           ELSE UNCHANGED <<password, sent>>

(* A negotiation succeeded: main clears the timer and starts to relay.      *)
Connected == pc' = "relay" /\ ClearTimer

(* START_RETRY: the connection is closed before the next, and nothing       *)
(* counts how often.                                                        *)
Retry == pc' = "connect" /\ sockets' = sockets - 1 /\ UNCHANGED timer

Unmoved == UNCHANGED <<opts, dest_addr, peer, asked>>

-----------------------------------------------------------------------------
(* SOCKS 5: the method, the subnegotiation, the reply, the bound address.   *)
Socks5Method ==
  /\ pc = "socks5_method" /\ peer = "speaks"
  /\ \E method \in { "noauth", "userpass", "other", "rejected" } :
       /\ answer' = method
       /\ CASE method = "noauth"   -> pc' = "socks5_reply" /\ UNCHANGED <<password, sent>>
            [] method = "userpass" -> pc' = "socks5_userpass" /\ SendPassword
            [] OTHER               -> Fatal /\ UNCHANGED <<password, sent>>
  /\ Unmoved
  /\ UNCHANGED <<timer, proxy_auth, relay_lost, sockets, redirected, unread, lines>>

Socks5UserPass ==
  /\ pc = "socks5_userpass" /\ peer = "speaks"
  /\ \E ok \in BOOLEAN : IF ok THEN pc' = "socks5_reply" ELSE Fatal
  /\ Unmoved
  /\ UNCHANGED <<timer, proxy_auth, relay_lost, password, sent, sockets, redirected, answer, unread, lines>>

(* The bytes of a reply after its first four, by the type of its address:   *)
(* as RFC 1928 has them, and as the program reads them.                     *)
AddressTypes == { "ipv4", "name", "ipv6", "unknown" }
NameLength   == 2
BoundAddress(atyp) ==
  CASE atyp = "ipv4" -> 4 + 2 [] atyp = "name" -> 1 + NameLength + 2 [] atyp = "ipv6" -> 16 + 2 [] OTHER -> 2
BoundRead_Default(atyp) ==
  CASE atyp = "name" -> 1 + (NameLength + 2) [] atyp = "ipv6" -> 16 + 2 [] OTHER -> 4 + 2
BoundRead(atyp) ==
  CASE atyp = "ipv4" -> 4 + 2 [] atyp = "name" -> 1 + (NameLength + 2) [] atyp = "ipv6" -> 16 + 2 [] OTHER -> 0

Socks5Reply ==
  /\ pc = "socks5_reply" /\ peer = "speaks"
  /\ \/ Fatal /\ answer' = "refused" /\ UNCHANGED unread
     \/ \E atyp \in AddressTypes :
          /\ pc' = "socks5_bound"
          /\ answer' = atyp
          /\ unread' = BoundAddress(atyp)
  /\ Unmoved
  /\ UNCHANGED <<timer, proxy_auth, relay_lost, password, sent, sockets, redirected, lines>>

Socks5Bound ==
  /\ pc = "socks5_bound" /\ peer = "speaks"
  /\ unread' = unread - BoundRead(answer)
  /\ Connected
  /\ Unmoved
  /\ UNCHANGED <<proxy_auth, relay_lost, password, sent, sockets, redirected, answer, lines>>

Socks4Reply ==
  /\ pc = "socks4_reply" /\ peer = "speaks"
  /\ \/ Fatal /\ answer' = "refused" /\ UNCHANGED timer
     \/ Connected /\ answer' = "granted"
  /\ Unmoved
  /\ UNCHANGED <<proxy_auth, relay_lost, password, sent, sockets, redirected, unread, lines>>

-----------------------------------------------------------------------------
(* HTTP: the status line, then header lines up to an empty one.             *)
HeaderLoops == { "http_200", "http_302", "http_auth" }

(* After a redirection, or a challenge that can be met: START_RETRY.        *)
AskAgain == pc = "http_302" \/ (pc = "http_auth" /\ proxy_auth)

HttpStatus ==
  /\ pc = "http_status" /\ peer = "speaks"
  /\ \E status \in { "200", "302", "401", "407", "other" } :
       /\ answer' = status
       /\ redirected' = (redirected \/ status = "302")
       /\ asked' = IF status = "302" THEN 0 ELSE asked
       /\ pc' = CASE status = "200" -> "http_200"
                  [] status = "302" -> "http_302"
                  [] status \in { "401", "407" } -> IF proxy_auth THEN "fatal" ELSE "http_auth"
                  [] OTHER -> "fatal"
  /\ lines' = 0
  /\ UNCHANGED <<opts, dest_addr, peer, timer, proxy_auth, relay_lost, password, sent, sockets, unread>>

(* A header line: of no interest, or Location, or the challenge asked for,  *)
(* of the scheme basic, of another, or malformed; or the empty line.        *)
HttpHeader ==
  /\ pc \in HeaderLoops /\ peer = "speaks"
  /\ lines < MaxHeaders
  /\ lines' = lines + 1
  /\ \E header \in { "plain", "location", "basic", "digest", "malformed" } :
       /\ relay_lost' = (relay_lost \/ (pc = "http_302" /\ header = "location"))
       /\ proxy_auth' = (proxy_auth \/ (pc = "http_auth" /\ header = "basic"))
       /\ IF pc = "http_auth" /\ header = "malformed" THEN Fatal ELSE UNCHANGED pc
  /\ Unmoved
  /\ UNCHANGED <<timer, password, sent, sockets, redirected, answer, unread>>

HttpEmptyLine_NoReturn ==
  /\ pc \in HeaderLoops /\ peer = "speaks"
  /\ CASE pc \in { "http_200", "http_302" } -> Connected /\ UNCHANGED sockets
       [] AskAgain          -> Retry
       [] OTHER             -> Fatal /\ UNCHANGED <<sockets, timer>>
  /\ Unmoved
  /\ UNCHANGED <<proxy_auth, relay_lost, password, sent, redirected, answer, unread, lines>>

HttpEmptyLine ==
  /\ pc \in HeaderLoops /\ peer = "speaks"
  /\ CASE pc = "http_200"  -> Connected /\ UNCHANGED sockets
       [] AskAgain          -> Retry
       [] OTHER             -> Fatal /\ UNCHANGED <<sockets, timer>>
  /\ Unmoved
  /\ UNCHANGED <<proxy_auth, relay_lost, password, sent, redirected, answer, unread, lines>>

-----------------------------------------------------------------------------
(* Telnet: lines up to the good phrase or a bad one.                        *)
TelnetLine ==
  /\ pc = "telnet" /\ peer = "speaks"
  /\ \E phrase \in { "connected_to", "refused", "plain" } :
       /\ phrase = "plain" => lines < MaxHeaders
       /\ answer' = phrase
       /\ lines' = IF phrase = "plain" THEN lines + 1 ELSE lines
       /\ CASE phrase = "connected_to" -> Connected
            [] phrase = "refused"      -> Fatal /\ UNCHANGED timer
            [] OTHER                   -> UNCHANGED <<pc, timer>>
  /\ Unmoved
  /\ UNCHANGED <<proxy_auth, relay_lost, password, sent, sockets, redirected, unread>>

-----------------------------------------------------------------------------
(* The proxy closes or resets the connection, and what the program makes of *)
(* it when it reads: atomic_in gives up, a status line is empty, telnet     *)
(* gives up.  The loops over header lines end when the connection is reset; *)
(* but line_input takes its end for an empty string and no error, and they  *)
(* read on.                                                                 *)
PeerCloses ==
  /\ pc \in Waiting /\ peer = "speaks"
  /\ peer' \in { "closed", "reset" }
  /\ UNCHANGED <<opts, pc, timer, proxy_auth, dest_addr, relay_lost, password, sent,
                 sockets, asked, redirected, answer, unread, lines>>

EndOfStream ==
  /\ pc \in Waiting
  /\ \/ peer = "closed" /\ pc \notin HeaderLoops
     \/ peer = "reset"
  /\ IF peer = "reset" /\ AskAgain THEN Retry ELSE Fatal /\ UNCHANGED <<sockets, timer>>
  /\ Unmoved
  /\ UNCHANGED <<proxy_auth, relay_lost, password, sent, redirected, answer, unread, lines>>

(* Time passes while the program waits, or reads nothing again and again;   *)
(* at the end comes SIGALRM, and sig_timeout.                               *)
Tick ==
  /\ timer > 0 /\ pc \in Waiting
  /\ timer' = timer - 1
  /\ pc' = IF timer = 1 THEN "timed_out" ELSE pc
  /\ UNCHANGED <<opts, proxy_auth, dest_addr, relay_lost, password, sent, peer,
                 sockets, asked, redirected, answer, unread, lines>>

Negotiate ==
  \/ Connect
  \/ Socks5Method \/ Socks5UserPass \/ Socks5Reply \/ Socks5Bound
  \/ Socks4Reply
  \/ HttpStatus \/ HttpHeader \/ HttpEmptyLine
  \/ TelnetLine
  \/ EndOfStream
=============================================================================
