-------------------------- MODULE PacketClientProofs --------------------------
(***************************************************************************)
(* What holds of the interactive client for payloads of any length and any *)
(* number of packets.                                                      *)
(***************************************************************************)
EXTENDS PacketClient, TLAPS

(* A payload is only waited for when its header has announced one, or when  *)
(* the stream is over.                                                      *)
BodyExpected ==
  receiver = "body" =>
    IF Waiting THEN Announced(sent[Len(shown) + 1]) > HeaderSize
               ELSE peer # "up"

StreamInv == TypeOK /\ ReadAsSent /\ BodyExpected

-----------------------------------------------------------------------------
(* The header tells the length of a payload that fits, and one that does    *)
(* not is announced shorter than it is.                                     *)
LEMMA AnnouncedTells ==
  ASSUME NEW len \in Nat
  PROVE  /\ Announced(len) \in 0 .. Sizes - 1
         /\ Fits(len) => Announced(len) = HeaderSize + len
         /\ ~Fits(len) => Announced(len) < HeaderSize + len
  <1> DEFINE m == HeaderSize + len
  <1>1. m \in Nat
    BY DEF HeaderSize
  <1>2. Fits(len) <=> m < Sizes
    BY SizesAssumption DEF Fits, MaxPayload, HeaderSize
  <1>3. Announced(len) = m % Sizes
    BY DEF Announced
  <1> HIDE DEF m
  <1>4. m % Sizes \in 0 .. Sizes - 1
    BY <1>1, SizesAssumption
  <1>5. m < Sizes => m % Sizes = m
    BY <1>1, SizesAssumption
  <1>6. ~(m < Sizes) => m % Sizes < m
    BY <1>1, <1>4, SizesAssumption
  <1> QED BY <1>2, <1>3, <1>4, <1>5, <1>6 DEF m

(* A payload read is appended; the thread is astray if it was not all of it.*)
LEMMA ShowsNext ==
  ASSUME TypeOK, ReadAsSent, receiver \in {"header", "body"}, Waiting,
         NEW n \in 0 .. MaxPayload, Shows(n), UNCHANGED <<sent, echoed>>,
         Fits(sent[Len(shown) + 1]) => n = sent[Len(shown) + 1]
  PROVE  /\ shown' \in Seq(0 .. MaxPayload)
         /\ receiver' \in {"checks", "astray"}
         /\ ReadAsSent'
  <1> DEFINE k == Len(shown) + 1
  <1>1. /\ shown \in Seq(0 .. MaxPayload) /\ Len(shown) \in Nat
        /\ sent \in Seq(Lengths) /\ echoed \in Nat /\ echoed <= Len(sent)
    BY DEF TypeOK
  <1>2. /\ shown' \in Seq(0 .. MaxPayload) /\ Len(shown') = k
        /\ shown'[k] = n /\ \A i \in 1 .. Len(shown) : shown'[i] = shown[i]
    BY <1>1 DEF Shows
  <1>3. k <= echoed
    BY <1>1 DEF Waiting
  <1>4. \A i \in 1 .. k : Fits(sent[i]) => shown'[i] = sent[i]
    BY <1>1, <1>2 DEF ReadAsSent
  <1>5. receiver' = "astray" => shown' # <<>> /\ ~Fits(sent[k])
    BY <1>1, <1>2 DEF Shows
  <1>6. receiver' \in {"checks", "astray"}
    BY DEF Shows
  <1> QED BY <1>2, <1>3, <1>4, <1>5, <1>6 DEF ReadAsSent

-----------------------------------------------------------------------------
LEMMA StreamInvInit == Init => StreamInv
  <1> SUFFICES ASSUME Init PROVE StreamInv
    OBVIOUS
  <1>1. sent = <<>> /\ shown = <<>> /\ echoed = 0 /\ receiver = "none"
    BY DEF Init
  <1>2. TypeOK
    <2>1. sent \in Seq(Lengths) /\ shown \in Seq(0 .. MaxPayload)
          /\ echoed \in 0 .. Len(sent)
      BY <1>1
    <2>2. running \in BOOLEAN /\ late \in BOOLEAN
      BY DEF Init
    <2> QED BY <2>1, <2>2 DEF Init, TypeOK
  <1>3. ReadAsSent /\ BodyExpected
    BY <1>1 DEF ReadAsSent, BodyExpected
  <1> QED BY <1>2, <1>3 DEF StreamInv

LEMMA StreamInvNext == StreamInv /\ [Next]_vars => StreamInv'
  <1> SUFFICES ASSUME TypeOK, ReadAsSent, BodyExpected, [Next]_vars
               PROVE  TypeOK' /\ ReadAsSent' /\ BodyExpected'
    BY DEF StreamInv
  <1>1. /\ shown \in Seq(0 .. MaxPayload) /\ Len(shown) \in Nat
        /\ sent \in Seq(Lengths) /\ echoed \in Nat /\ echoed <= Len(sent)
        /\ Len(sent) \in Nat /\ Len(shown) <= echoed
    BY DEF TypeOK, ReadAsSent
  <1>2. CASE Connect \/ ConnectFails \/ SendFails \/ SendKills \/ Quit \/ Joined
             \/ ChecksFlag \/ StraysToEnd \/ UNCHANGED vars
    BY <1>2 DEF Connect, ConnectFails, SendFails, SendKills, Quit, Joined,
      ChecksFlag, StraysToEnd, vars, server, TypeOK, ReadAsSent, BodyExpected, Waiting
  <1>3. ASSUME NEW len \in Lengths, SendPacket(len)
        PROVE  TypeOK' /\ ReadAsSent' /\ BodyExpected'
    <2>1. /\ sent' \in Seq(Lengths) /\ Len(sent') = Len(sent) + 1
          /\ \A i \in 1 .. Len(sent) : sent'[i] = sent[i]
          /\ UNCHANGED <<menu, receiver, running, shown, err, echoed, cut, peer>>
          /\ late' \in BOOLEAN
      BY <1>1, <1>3 DEF SendPacket, server, TypeOK
    <2>2. TypeOK'
      BY <1>1, <2>1 DEF TypeOK
    <2>3. ReadAsSent'
      BY <1>1, <2>1 DEF ReadAsSent
    <2>4. BodyExpected'
      BY <1>1, <2>1 DEF BodyExpected, Waiting
    <2> QED BY <2>2, <2>3, <2>4
  <1>4. ASSUME receiver \in {"header", "body"}, Waiting,
               NEW n \in 0 .. MaxPayload, Shows(n),
               Fits(sent[Len(shown) + 1]) => n = sent[Len(shown) + 1],
               UNCHANGED <<menu, running, sent, late, err, server>>
        PROVE  TypeOK' /\ ReadAsSent' /\ BodyExpected'
    <2>1. /\ shown' \in Seq(0 .. MaxPayload) /\ receiver' \in {"checks", "astray"}
          /\ ReadAsSent'
      BY <1>4, ShowsNext DEF server
    <2> QED BY <1>4, <2>1 DEF TypeOK, BodyExpected, server
  <1>5. ASSUME Waiting
        PROVE  /\ sent[Len(shown) + 1] \in Nat
               /\ Announced(sent[Len(shown) + 1]) \in 0 .. Sizes - 1
               /\ Fits(sent[Len(shown) + 1]) =>
                    Announced(sent[Len(shown) + 1]) = HeaderSize + sent[Len(shown) + 1]
    <2>1. Len(shown) + 1 \in 1 .. Len(sent)
      BY <1>1, <1>5 DEF Waiting
    <2>2. sent[Len(shown) + 1] \in Lengths
      BY <1>1, <2>1
    <2>3. sent[Len(shown) + 1] \in Nat
      BY <2>2, LengthsAssumption
    <2> QED BY <2>3, AnnouncedTells
  <1>6. CASE ReadHeader
    <2> DEFINE len == sent[Len(shown) + 1]
    <2>1. CASE Announced(len) > HeaderSize
      BY <1>6, <2>1 DEF ReadHeader, TypeOK, ReadAsSent, BodyExpected, Waiting, server
    <2>2. CASE ~(Announced(len) > HeaderSize)
      <3>1. Shows(0) /\ Waiting /\ receiver = "header"
            /\ UNCHANGED <<menu, running, sent, late, err, server>>
        BY <1>6, <2>2 DEF ReadHeader
      <3>2. Fits(len) => 0 = len
        BY <1>5, <2>2, <3>1 DEF HeaderSize
      <3>3. 0 \in 0 .. MaxPayload
        BY SizesAssumption DEF MaxPayload, HeaderSize
      <3> QED BY <1>4, <3>1, <3>2, <3>3
    <2> QED BY <2>1, <2>2
  <1>7. CASE ReadBody
    <2> DEFINE len == sent[Len(shown) + 1]
               n == Announced(len) - HeaderSize
    <2>1. Shows(n) /\ Waiting /\ receiver = "body"
          /\ UNCHANGED <<menu, running, sent, late, err, server>>
      BY <1>7 DEF ReadBody
    <2>2. n \in 0 .. MaxPayload /\ (Fits(len) => n = len)
      <3>1. Announced(len) > 4 /\ n = Announced(len) - 4
        BY <2>1 DEF BodyExpected, HeaderSize
      <3>2. /\ Announced(len) \in 0 .. Sizes - 1 /\ len \in Nat
            /\ Fits(len) => Announced(len) = 4 + len
        BY <1>5, <2>1 DEF HeaderSize
      <3> HIDE DEF n, len
      <3> QED BY <3>1, <3>2, SizesAssumption DEF MaxPayload, HeaderSize
    <2> HIDE DEF n
    <2> QED BY <1>4, <2>1, <2>2
  <1>8. CASE ReadCut \/ ReadEnd
    BY <1>8 DEF ReadCut, ReadEnd, StreamOver, GivesUp, TypeOK, ReadAsSent,
      BodyExpected, Waiting, server, AtEnd
  <1>9. CASE Server
    <2>1. CASE Echoes
      BY <1>1, <2>1 DEF Echoes, TypeOK, ReadAsSent, BodyExpected, Waiting
    <2>2. ASSUME NEW part \in {"none", "header", "payload"}, Closes(part)
          PROVE  TypeOK' /\ ReadAsSent' /\ BodyExpected'
      BY <2>2 DEF Closes, TypeOK, ReadAsSent, BodyExpected, Waiting
    <2>3. CASE AnswersReset
      BY <2>3 DEF AnswersReset, TypeOK, ReadAsSent, BodyExpected, Waiting
    <2> QED BY <1>9, <2>1, <2>2, <2>3 DEF Server
  <1> QED BY <1>2, <1>3, <1>6, <1>7, <1>8, <1>9 DEF Next, Main, Receives

-----------------------------------------------------------------------------
(* What was sent, echoed and shown, and both threads' places, keep their    *)
(* types: no payload is shown longer than its header can announce.          *)
THEOREM ClientTypeCorrect == Spec => []TypeOK
  <1>1. StreamInv => TypeOK
    BY DEF StreamInv
  <1> QED BY <1>1, StreamInvInit, StreamInvNext, PTL DEF Spec

(* Whatever the lengths: payloads of up to MaxPayload are read as they were *)
(* sent, and only a longer one leads the thread astray.                     *)
THEOREM ReadCorrect == Spec => []ReadAsSent
  <1>1. StreamInv => ReadAsSent
    BY DEF StreamInv
  <1> QED BY <1>1, StreamInvInit, StreamInvNext, PTL DEF Spec

-----------------------------------------------------------------------------
(* Quitting while the thread waits for a header.                            *)
LEMMA OnlyServerWakes ==
  ASSUME Idle, menu \in {"menu", "joining"}, [Next]_vars, ~Server
  PROVE  Idle' /\ menu' \in {"menu", "joining"}
  <1>1. CASE UNCHANGED vars
    BY <1>1 DEF Idle, Waiting, vars
  <1>2. ASSUME NEW len \in Lengths, SendPacket(len)
        PROVE  Idle' /\ menu' \in {"menu", "joining"}
    BY <1>2 DEF Idle, Waiting, SendPacket, server
  <1>3. CASE SendFails \/ Quit
    BY <1>3 DEF Idle, Waiting, SendFails, Quit, server
  <1>4. ~Connect /\ ~ConnectFails /\ ~SendKills /\ ~Joined
    BY DEF Idle, Connect, ConnectFails, SendKills, Joined
  <1>5. ~Receives /\ ~StraysToEnd
    BY DEF Idle, Receives, ChecksFlag, ReadHeader, ReadBody, Shows, ReadCut,
      ReadEnd, StraysToEnd, StreamOver
  <1> QED BY <1>1, <1>2, <1>3, <1>4, <1>5 DEF Next, Main

(* The other half of QuitEndsOrBlocks, for payloads of any length: a client *)
(* whose thread waits between two packets never leaves if from then on the  *)
(* server neither echoes nor closes, whether main has quit or not.          *)
THEOREM QuitHangs == Spec => OnlyServerFrees
  <1>1. [Next]_vars =>
          [Idle /\ menu \in {"menu", "joining"} =>
             Server \/ (Idle' /\ menu' \in {"menu", "joining"})]_vars
    BY OnlyServerWakes
  <1> QED BY <1>1, PTL DEF Spec, OnlyServerFrees
=============================================================================
