----------------------------- MODULE PacketClient -----------------------------
(***************************************************************************)
(* The interactive client (src/client/test_client.cpp): main's menu, the   *)
(* receive thread, and the connection between them and a server that sends *)
(* packets back as GameSession::OnRecvData would (echo), may close the     *)
(* connection at any time, and owes nothing.                               *)
(*                                                                         *)
(* A packet is the length of its payload.  The header has 16 bits for the  *)
(* size, room for MaxPayload; nothing stops the user from a longer one.    *)
(***************************************************************************)
EXTENDS Integers, Sequences

CONSTANTS
  Lengths,     \* the payload lengths the user sends
  MaxPackets,  \* bound on the packets the user sends
  Sizes        \* how many values a std::uint16_t has

ASSUME LengthsAssumption == Lengths \subseteq Nat
ASSUME MaxPacketsAssumption == MaxPackets \in Nat
ASSUME SizesAssumption == Sizes \in Nat /\ Sizes > 4

VARIABLES
  menu,       \* main: "begin", "menu", "joining", "exited"; or "killed"
  receiver,   \* the receive thread: "none" before it starts, the place it
              \* is at in its loop, "astray" in the middle of a payload it
              \* takes for packets, "ended"; or "killed"
  running,    \* receive_thread_running_
  sent,       \* packets the kernel took from sendPacket
  echoed,     \* how many of them came back in full
  cut,        \* what came back of the next before the server closed:
              \* "none", part of the "header", or it and part of the "payload"
  shown,      \* payloads the receive thread has read, as their lengths
  peer,       \* "up", "closed" (end of file sent), or "gone" (reset received)
  late,       \* packets were sent after the server had closed
  err         \* the socket's unreported error: "none", "reset" or "pipe"

vars == <<menu, receiver, running, sent, echoed, cut, shown, peer, late, err>>
server == <<echoed, cut, peer>>

HeaderSize == 4
MaxPayload == Sizes - 1 - HeaderSize
Fits(len) == len <= MaxPayload

-----------------------------------------------------------------------------
(* Variants of definitions below, as a slip in the code would make them.    *)

PayloadOnly(len) == len % Sizes
OnlyErrorsEnd(ret) == ret < 0
ShutsDown ==
  /\ menu = "menu"
  /\ menu' = "joining"
  /\ running' = FALSE
  /\ peer' = IF peer = "up" THEN "closed" ELSE peer
  /\ UNCHANGED <<receiver, sent, shown, late, err, echoed, cut>>

-----------------------------------------------------------------------------
(* header.size = sizeof(PacketHeader) + data.size(), in 16 bits.            *)
Announced(len) == (HeaderSize + len) % Sizes

(* recv with MSG_WAITALL returns what is left of the stream, 0 at its end,  *)
(* or -1 with the socket's error, which it clears.                          *)
Waiting == Len(shown) < echoed
StreamOver == peer # "up" /\ (receiver = "astray" \/ ~Waiting)
AtEnd == IF err = "none" THEN 0 ELSE -1

(* `if (received <= 0)` prints and gives up the packet.                     *)
GivesUp(ret) == ret <= 0

-----------------------------------------------------------------------------
(* main.                                                                    *)

(* connect() succeeds and startReceiveThread sets the flag and creates the  *)
(* thread.                                                                  *)
Connect ==
  /\ menu = "begin"
  /\ menu' = "menu"
  /\ running' = TRUE
  /\ receiver' = "checks"
  /\ UNCHANGED <<sent, shown, late, err, server>>

ConnectFails ==
  /\ menu = "begin"
  /\ menu' = "exited"
  /\ UNCHANGED <<receiver, running, sent, shown, late, err, server>>

(* Choices 1 to 4 and 6 send packets; 5 and a wrong input change nothing.   *)
SendPacket(len) ==
  /\ menu = "menu"
  /\ peer # "gone"
  /\ Len(sent) < MaxPackets
  /\ sent' = Append(sent, len)
  /\ late' = (late \/ peer = "closed")
  /\ UNCHANGED <<menu, receiver, running, shown, err, server>>

(* send() returns the error of the connection, once: main reports it and    *)
(* goes on with the menu.                                                   *)
SendFails ==
  /\ menu = "menu"
  /\ err = "reset"
  /\ err' = "none"
  /\ UNCHANGED <<menu, receiver, running, sent, shown, late, server>>

(* With no error left to report, or a broken pipe, send() raises SIGPIPE,   *)
(* which nothing in the client handles.                                     *)
SendKills ==
  /\ menu = "menu"
  /\ peer = "gone"
  /\ err # "reset"
  /\ menu' = "killed"
  /\ receiver' = "killed"
  /\ UNCHANGED <<running, sent, shown, late, err, server>>

(* Choice 0: stopReceiveThread clears the flag and joins.                   *)
Quit ==
  /\ menu = "menu"
  /\ menu' = "joining"
  /\ running' = FALSE
  /\ UNCHANGED <<receiver, sent, shown, late, err, server>>

(* join() returns; main does, and ~TestClient closes the socket.            *)
Joined ==
  /\ menu = "joining"
  /\ receiver = "ended"
  /\ menu' = "exited"
  /\ UNCHANGED <<receiver, running, sent, shown, late, err, server>>

Main == Connect \/ ConnectFails \/ SendFails \/ SendKills \/ Quit \/ Joined
          \/ \E len \in Lengths : SendPacket(len)

-----------------------------------------------------------------------------
(* The receive thread.                                                      *)

ChecksFlag ==
  /\ receiver = "checks"
  /\ receiver' = IF running THEN "header" ELSE "ended"
  /\ UNCHANGED <<menu, running, sent, shown, late, err, server>>

(* receivePacket has read n bytes of payload. If that was not all of it the *)
(* next header is looked for inside the payload.                            *)
Shows(n) ==
  /\ shown' = Append(shown, n)
  /\ receiver' = IF n = sent[Len(shown) + 1] THEN "checks" ELSE "astray"

ReadHeader ==
  /\ receiver = "header"
  /\ Waiting
  /\ IF Announced(sent[Len(shown) + 1]) > HeaderSize
       THEN receiver' = "body" /\ UNCHANGED shown
       ELSE Shows(0)
  /\ UNCHANGED <<menu, running, sent, late, err, server>>

ReadBody ==
  /\ receiver = "body"
  /\ Waiting
  /\ Shows(Announced(sent[Len(shown) + 1]) - HeaderSize)
  /\ UNCHANGED <<menu, running, sent, late, err, server>>

(* A header cut short is taken for a whole one, with whatever its missing   *)
(* bytes hold on the stack: a payload is expected, or not.                  *)
ReadCut ==
  /\ receiver = "header"
  /\ StreamOver
  /\ cut # "none"
  /\ cut' = "none"
  /\ receiver' \in IF cut = "header" THEN {"checks", "body"} ELSE {"body"}
  /\ UNCHANGED <<menu, running, sent, echoed, shown, peer, late, err>>

ReadEnd ==
  /\ receiver \in {"header", "body", "astray"}
  /\ StreamOver
  /\ cut = "none" \/ receiver # "header"
  /\ receiver' = IF GivesUp(AtEnd) THEN "ended" ELSE "header"
  /\ err' = "none"
  /\ UNCHANGED <<menu, running, sent, shown, late, server>>

(* A thread that reads payload as packets looks at the flag between them.   *)
StraysToEnd ==
  /\ receiver = "astray"
  /\ ~running
  /\ receiver' = "ended"
  /\ UNCHANGED <<menu, running, sent, shown, late, err, server>>

Receives == ChecksFlag \/ ReadHeader \/ ReadBody \/ ReadCut \/ ReadEnd

-----------------------------------------------------------------------------
(* The server and the network.                                              *)

Echoes ==
  /\ peer = "up"
  /\ echoed < Len(sent)
  /\ echoed' = echoed + 1
  /\ UNCHANGED <<menu, receiver, running, sent, cut, shown, peer, late, err>>

(* The server closes, between packets or inside one.                        *)
Closes(part) ==
  /\ peer = "up"
  /\ menu # "begin"
  /\ part # "none" => echoed < Len(sent)
  /\ part = "payload" => sent[echoed + 1] \in 1 .. MaxPayload
  /\ cut' = part
  /\ UNCHANGED <<menu, receiver, running, sent, echoed, shown, late>>
  /\ \/ peer' = "closed" /\ UNCHANGED err
     \/ peer' = "gone" /\ err' = "reset"

(* Data for a connection the server has closed is answered with a reset.    *)
AnswersReset ==
  /\ peer = "closed"
  /\ late
  /\ peer' = "gone"
  /\ err' = "pipe"
  /\ UNCHANGED <<menu, receiver, running, sent, echoed, cut, shown, late>>

Server == Echoes \/ AnswersReset
            \/ \E part \in {"none", "header", "payload"} : Closes(part)

-----------------------------------------------------------------------------
Init ==
  /\ menu = "begin"
  /\ receiver = "none"
  /\ running = FALSE
  /\ sent = <<>>
  /\ echoed = 0
  /\ cut = "none"
  /\ shown = <<>>
  /\ peer = "up"
  /\ late = FALSE
  /\ err = "none"

Next == Main \/ Receives \/ StraysToEnd \/ Server

Spec == Init /\ [][Next]_vars

(* Both threads run when they can. The user need not choose anything, and   *)
(* the server need not answer.                                              *)
FairSpec == Spec /\ WF_vars(Receives) /\ WF_vars(Joined)

-----------------------------------------------------------------------------
TypeOK ==
  /\ menu \in {"begin", "menu", "joining", "exited", "killed"}
  /\ receiver \in {"none", "checks", "header", "body", "astray", "ended", "killed"}
  /\ {running, late} \subseteq BOOLEAN
  /\ sent \in Seq(Lengths)
  /\ echoed \in 0 .. Len(sent)
  /\ cut \in {"none", "header", "payload"}
  /\ shown \in Seq(0 .. MaxPayload)
  /\ peer \in {"up", "closed", "gone"}
  /\ err \in {"none", "reset", "pipe"}

(* The payloads come out of the stream as they went in, in their order and  *)
(* whole, and receivePacket loses its place only on a payload that is too   *)
(* long for the header.                                                     *)
ReadAsSent ==
  /\ Len(shown) <= echoed
  /\ \A i \in 1 .. Len(shown) : Fits(sent[i]) => shown[i] = sent[i]
  /\ receiver = "astray" => shown # <<>> /\ ~Fits(sent[Len(shown)])

(* A connection that the server has ended is noticed by the receive thread, *)
(* wherever in a packet it ends and whichever thread meets the error.       *)
LossNoticed ==
  peer # "up" /\ menu # "exited" ~> receiver \in {"ended", "killed"}

(* The receive thread waits for bytes that only the server can send: the    *)
(* first of a header, or, astray, as many as it takes a length to announce. *)
Blocked ==
  peer = "up" /\ (receiver = "astray" \/ (receiver = "header" /\ ~Waiting))

(* Whoever quits leaves, however much is still to be read and whatever the  *)
(* server does, unless the thread that main joins comes to wait for a       *)
(* server that sends no more and does not close; then it waits for good.    *)
QuitEndsOrBlocks == menu = "joining" ~> menu = "exited" \/ []Blocked

(* Between two packets choice 0 ends nothing: main's menu and the thread's  *)
(* loop go on as they like, but only what the server does gets the thread   *)
(* out of recv and main past its join.  (A quit that shut the socket down   *)
(* would.)                                                                  *)
Idle == peer = "up" /\ receiver = "header" /\ ~Waiting
OnlyServerFrees ==
  [][Idle /\ menu \in {"menu", "joining"} =>
       Server \/ (Idle' /\ menu' \in {"menu", "joining"})]_vars
=============================================================================
