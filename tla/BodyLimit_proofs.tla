-------------------------- MODULE BodyLimit_proofs --------------------------
(***************************************************************************)
(* Proofs about BodyLimit, for every limit, every length of the body and   *)
(* of its pieces: one answer per request, the whole 413 for a body past    *)
(* the limit unless an answer had left, and nothing lost within it.  The   *)
(* messages that have left and the one on its way are taken together       *)
(* (Sent), so that the return of a send changes nothing.                   *)
(***************************************************************************)
EXTENDS BodyLimit, SequenceTheorems, TLAPS

Senders == {"app", "middleware"}

(* Sequences of one or two elements.                                       *)
LEMMA ShortSequences ==
    ASSUME NEW S, NEW x \in S, NEW y \in S
    PROVE  /\ Append(<<x>>, y) = <<x, y>>
           /\ SubSeq(<<x, y>>, 1, 1) = <<x>>
<1>1. <<x>> \in Seq(S) /\ <<x, y>> \in Seq(S)
  OBVIOUS
<1>2. Append(<<x>>, y) \in Seq(S) /\ Len(Append(<<x>>, y)) = 2
  BY <1>1
<1>3. \A i \in 1..2: Append(<<x>>, y)[i] = <<x, y>>[i]
  BY <1>1
<1>4. Append(<<x>>, y) = <<x, y>>
  BY <1>1, <1>2, <1>3, SeqEqual
<1>5. /\ SubSeq(<<x, y>>, 1, 1) \in Seq(S) /\ Len(SubSeq(<<x, y>>, 1, 1)) = 1
      /\ \A i \in 1..1: SubSeq(<<x, y>>, 1, 1)[i] = <<x>>[i]
  BY <1>1
<1>6. SubSeq(<<x, y>>, 1, 1) = <<x>>
  <2>1. Len(<<x>>) = 1
    OBVIOUS
  <2>2. QED
    BY <1>1, <1>5, <2>1, SeqEqual
<1>7. QED
  BY <1>4, <1>6

(* How an answer grows, and that its stages differ.                        *)
LEMMA Stages ==
    /\ \A s \in Senders:
        /\ Append(<<>>, From(s, "start")) = Opening(s)
        /\ Append(Opening(s), From(s, "body")) = AnswerOf(s)
        /\ SubSeq(AnswerOf(s), 1, 1) = Opening(s)
        /\ Len(Opening(s)) = 1 /\ Opening(s)[1] = From(s, "start")
        /\ Len(AnswerOf(s)) = 2
        /\ Opening(s) # <<>> /\ AnswerOf(s) # <<>>
        /\ \A t \in Senders: Opening(s) # AnswerOf(t)
    /\ Opening("app") # Opening("middleware")
    /\ AnswerOf("app") # AnswerOf("middleware")
<1>1. ASSUME NEW s \in Senders
      PROVE  /\ Append(<<>>, From(s, "start")) = Opening(s)
             /\ Append(Opening(s), From(s, "body")) = AnswerOf(s)
             /\ Len(Opening(s)) = 1 /\ Opening(s)[1] = From(s, "start")
             /\ Len(AnswerOf(s)) = 2
             /\ AnswerOf(s)[1] = From(s, "start")
             /\ SubSeq(AnswerOf(s), 1, 1) = Opening(s)
  <2> DEFINE x == From(s, "start")
             y == From(s, "body")
             both == {x, y}
  <2>1. x \in both /\ y \in both
    OBVIOUS
  <2>2. Append(<<x>>, y) = <<x, y>> /\ SubSeq(<<x, y>>, 1, 1) = <<x>>
    <3> HIDE DEF x, y, both
    <3>1. QED
      BY <2>1, ShortSequences
  <2>3. Append(<<>>, x) = <<x>>
    OBVIOUS
  <2>4. QED
    BY <2>2, <2>3 DEF Opening, AnswerOf
<1>2. From("app", "start") # From("middleware", "start")
  BY DEF From
<1>3. QED
  BY <1>1, <1>2 DEF Senders

(* A message passed on is the last one sent.                               *)
LEMMA SentGrows ==
    ASSUME sending = None, NEW m \in Message, sending' = m, wire' = wire
    PROVE  Sent' = Append(Sent, m)
  BY NoneAssumption DEF Sent

(* Every step leaves every variable in its range, and the flag in step     *)
(* with the count.                                                         *)
LEMMA TypeStep ==
    ASSUME TypeOK, [Next]_vars
    PROVE  TypeOK'
<1> USE BodyLimitAssumption, NoneAssumption DEF TypeOK, request, reply
<1>1. CASE RefuseDeclared
  BY <1>1 DEF RefuseDeclared
<1>2. CASE EnterApp
  BY <1>2 DEF EnterApp
<1>3. ASSUME NEW size \in Chunks, ReceiveChunk(size)
      PROVE  TypeOK'
  BY <1>3 DEF ReceiveChunk
<1>4. CASE AppStarts
  <2>1. From("app", "start") \in Message
    BY DEF From, Message
  <2>2. QED
    BY <1>4, <2>1 DEF AppStarts
<1>5. CASE AppSendsBody
  BY <1>5 DEF AppSendsBody, From, Message
<1>6. CASE AppReturns
  BY <1>6 DEF AppReturns
<1>7. CASE AppRaises
  BY <1>7 DEF AppRaises
<1>8. CASE SendReturns
  BY <1>8 DEF SendReturns
<1>9. CASE LeaveApp
  BY <1>9 DEF LeaveApp
<1>10. CASE Reject
  BY <1>10 DEF Reject, From, Message
<1>11. CASE UNCHANGED vars
  BY <1>11 DEF vars
<1>12. QED
  BY <1>1, <1>2, <1>3, <1>4, <1>5, <1>6, <1>7, <1>8, <1>9, <1>10, <1>11
     DEF Next, Done

(* Every step keeps the answers apart: whose answer has left is known as   *)
(* soon as its first message is on its way.                                *)
LEMMA BelongStep ==
    ASSUME IndInv, [Next]_vars
    PROVE  AnswersBelong'
<1> USE Stages DEF Senders, IndInv, AnswersBelong, NothingIsLost, TooMuchDeclared,
        Oversized, request, reply
<1>0. TypeOK /\ TypeOK'
  BY TypeStep
<1>1. CASE RefuseDeclared
  BY <1>1 DEF RefuseDeclared, Sent
<1>2. CASE EnterApp
  BY <1>2 DEF EnterApp, Sent
<1>3. ASSUME NEW size \in Chunks, ReceiveChunk(size)
      PROVE  AnswersBelong'
  BY <1>3 DEF ReceiveChunk, Sent
<1>4. CASE AppStarts
  <2>1. CASE too_large
    BY <1>4, <2>1 DEF AppStarts, Sent
  <2>2. CASE ~too_large
    <3>1. Sent = <<>>
      BY <1>4, <2>2 DEF AppStarts
    <3>2. From("app", "start") \in Message
      BY DEF From, Message
    <3>3. Sent' = Opening("app")
      BY <1>4, <2>2, <3>1, <3>2, SentGrows DEF AppStarts
    <3>4. QED
      BY <1>4, <2>2, <3>3 DEF AppStarts
  <2>3. QED
    BY <1>0, <2>1, <2>2 DEF TypeOK
<1>5. CASE AppSendsBody
  <2>1. CASE too_large
    BY <1>5, <2>1 DEF AppSendsBody, Sent
  <2>2. CASE ~too_large
    <3>1. Sent = Opening("app")
      BY <1>5, <2>2 DEF AppSendsBody
    <3>2. From("app", "body") \in Message
      BY DEF From, Message
    <3>3. Sent' = AnswerOf("app")
      BY <1>5, <2>2, <3>1, <3>2, SentGrows DEF AppSendsBody
    <3>4. QED
      BY <1>5, <2>2, <3>1, <3>3 DEF AppSendsBody
  <2>3. QED
    BY <1>0, <2>1, <2>2 DEF TypeOK
<1>6. CASE AppReturns
  BY <1>6 DEF AppReturns, Sent
<1>7. CASE AppRaises
  BY <1>7 DEF AppRaises, Sent
<1>8. CASE SendReturns
  <2>1. Sent' = Sent
    BY <1>8 DEF SendReturns, Sent
  <2>2. QED
    BY <1>8, <2>1 DEF SendReturns
<1>9. CASE LeaveApp
  BY <1>9 DEF LeaveApp, Sent
<1>10. CASE Reject
  <2>1. wire = Sent /\ Sent \in {<<>>, Opening("middleware")} /\ Oversized
    BY <1>10 DEF Reject, Sent
  <2>2. CASE Sent = <<>>
    <3>1. From("middleware", "start") \in Message
      BY DEF From, Message
    <3>2. sending' = From("middleware", "start") /\ stage' = "reject"
      BY <1>10, <2>1, <2>2 DEF Reject
    <3>3. Sent' = Opening("middleware")
      BY <1>10, <2>2, <3>1, <3>2, SentGrows DEF Reject
    <3>4. QED
      BY <1>10, <2>1, <2>2, <3>2, <3>3 DEF Reject
  <2>3. CASE Sent = Opening("middleware")
    <3>1. From("middleware", "body") \in Message
      BY DEF From, Message
    <3>2. Last(wire).part = "start" /\ Len(wire) > 0
      BY <2>1, <2>3 DEF Last, From
    <3>3. sending' = From("middleware", "body") /\ stage' = "done"
      BY <1>10, <3>2 DEF Reject
    <3>4. Sent' = AnswerOf("middleware")
      BY <1>10, <2>3, <3>1, <3>3, SentGrows DEF Reject
    <3>5. QED
      BY <1>10, <2>1, <2>3, <3>3, <3>4 DEF Reject
  <2>4. QED
    BY <2>1, <2>2, <2>3
<1>11. CASE UNCHANGED vars
  BY <1>11 DEF vars, Sent
<1>12. QED
  BY <1>1, <1>2, <1>3, <1>4, <1>5, <1>6, <1>7, <1>8, <1>9, <1>10, <1>11
     DEF Next, Done

(* Every step within the limit lets the answer through and the errors out. *)
LEMMA NothingLostStep ==
    ASSUME IndInv, [Next]_vars
    PROVE  NothingIsLost'
<1> USE BodyLimitAssumption, Stages DEF Senders, IndInv, AnswersBelong,
        NothingIsLost, TooMuchDeclared, Oversized, request, reply
<1>0. TypeOK /\ TypeOK'
  BY TypeStep
<1>1. CASE RefuseDeclared
  BY <1>1 DEF RefuseDeclared, Sent
<1>2. CASE EnterApp
  BY <1>2 DEF EnterApp, Sent
<1>3. ASSUME NEW size \in Chunks, ReceiveChunk(size)
      PROVE  NothingIsLost'
  <2>1. ~too_large /\ stage' = stage /\ stage = "app" /\ raised' = raised
    BY <1>3 DEF ReceiveChunk
  <2>2. Sent' = Sent /\ sending' = sending /\ answering' = answering
    BY <1>3 DEF ReceiveChunk, Sent
  <2>3. forwarded' <= MaxBytes
    <3>1. received' \in Nat /\ MaxBytes \in Nat
      BY <1>0 DEF TypeOK
    <3>2. CASE too_large'
      BY <1>3, <3>2, Zenon DEF ReceiveChunk
    <3>3. CASE ~too_large'
      <4>1. forwarded' = received' /\ ~(received' > MaxBytes)
        BY <1>3, <3>3, Zenon DEF ReceiveChunk
      <4>2. QED
        BY <3>1, <4>1
    <3>4. QED
      BY <3>2, <3>3, Zenon
  <2>4. declared' = declared
    BY <1>3 DEF ReceiveChunk
  <2>5. QED
    BY <2>1, <2>2, <2>3, <2>4
<1>4. CASE AppStarts
  <2>1. CASE too_large
    BY <1>4, <2>1 DEF AppStarts, Sent
  <2>2. CASE ~too_large
    <3>1. Sent = <<>>
      BY <1>4, <2>2 DEF AppStarts
    <3>2. From("app", "start") \in Message
      BY DEF From, Message
    <3>3. Sent' = Opening("app")
      BY <1>4, <2>2, <3>1, <3>2, SentGrows DEF AppStarts
    <3>4. QED
      BY <1>4, <2>2, <3>3 DEF AppStarts
  <2>3. QED
    BY <1>0, <2>1, <2>2 DEF TypeOK
<1>5. CASE AppSendsBody
  <2>1. CASE too_large
    BY <1>5, <2>1 DEF AppSendsBody, Sent
  <2>2. CASE ~too_large
    <3>1. Sent = Opening("app")
      BY <1>5, <2>2 DEF AppSendsBody
    <3>2. From("app", "body") \in Message
      BY DEF From, Message
    <3>3. Sent' = AnswerOf("app")
      BY <1>5, <2>2, <3>1, <3>2, SentGrows DEF AppSendsBody
    <3>4. QED
      BY <1>5, <2>2, <3>3 DEF AppSendsBody
  <2>3. QED
    BY <1>0, <2>1, <2>2 DEF TypeOK
<1>6. CASE AppReturns
  BY <1>6 DEF AppReturns, Sent
<1>7. CASE AppRaises
  BY <1>0, <1>7 DEF AppRaises, Sent, TypeOK
<1>8. CASE SendReturns
  <2>1. Sent' = Sent
    BY <1>8 DEF SendReturns, Sent
  <2>2. QED
    BY <1>8, <2>1 DEF SendReturns
<1>9. CASE LeaveApp
  BY <1>9 DEF LeaveApp, Sent
<1>10. CASE Reject
  BY <1>10 DEF Reject, Sent
<1>11. CASE UNCHANGED vars
  BY <1>11 DEF vars, Sent
<1>12. QED
  BY <1>1, <1>2, <1>3, <1>4, <1>5, <1>6, <1>7, <1>8, <1>9, <1>10, <1>11
     DEF Next, Done

-----------------------------------------------------------------------------
(* The invariant holds of every request, whatever its body and the         *)
(* application do.                                                         *)
THEOREM IndInvHolds == Spec => []IndInv
<1>1. Init => IndInv
  <2> SUFFICES ASSUME Init PROVE IndInv
    OBVIOUS
  <2>1. Sent = <<>>
    BY DEF Init, Sent
  <2>2. TypeOK
    <3>1. wire \in Seq(Message)
      BY DEF Init
    <3>2. too_large = (received > MaxBytes)
      <4>1. (0 > MaxBytes) = FALSE
        BY BodyLimitAssumption
      <4>2. received = 0 /\ too_large = FALSE
        BY DEF Init
      <4>3. QED
        BY <4>1, <4>2, Zenon
    <3>3. declared \in Nat \cup {None}
      BY BodyLimitAssumption DEF Init
    <3>4. /\ chunks \in 0..MaxChunks /\ forwarded <= received
          /\ {received, forwarded} \subseteq Nat
      BY BodyLimitAssumption DEF Init
    <3>5. QED
      BY <3>1, <3>2, <3>3, <3>4, Zenon DEF Init, TypeOK
  <2>3. QED
    BY <2>1, <2>2, Stages, BodyLimitAssumption
       DEF Senders, Init, IndInv, AnswersBelong, NothingIsLost, TooMuchDeclared,
           Oversized
<1>2. IndInv /\ [Next]_vars => IndInv'
  BY TypeStep, BelongStep, NothingLostStep DEF IndInv
<1>3. QED
  BY <1>1, <1>2, PTL DEF Spec

(* Every variable keeps its type, and the flag says what the count says.   *)
THEOREM BodyTypeCorrect == Spec => []TypeOK
<1>1. IndInv => TypeOK
  BY DEF IndInv
<1>2. QED
  BY IndInvHolds, <1>1, PTL

(* The client sees one answer of one sender, wherever the limit falls.     *)
THEOREM AnswerIsOne == Spec => []OneAnswer
<1>1. ASSUME NEW s \in Senders
      PROVE  /\ IsPrefix(<<>>, AnswerOf(s))
             /\ IsPrefix(Opening(s), AnswerOf(s))
             /\ IsPrefix(AnswerOf(s), AnswerOf(s))
  BY DEF IsPrefix, Opening, AnswerOf
<1>2. IndInv => OneAnswer
  BY <1>1 DEF Senders, IndInv, AnswersBelong, OneAnswer
<1>3. QED
  BY IndInvHolds, <1>2, PTL

(* A body past the limit is answered by the whole 413, unless an answer    *)
(* had left before, and the application never gets more than the limit.    *)
THEOREM OversizedRefused == Spec => []OversizedIsRefused
<1>1. IndInv => OversizedIsRefused
  <2> SUFFICES ASSUME IndInv PROVE OversizedIsRefused
    OBVIOUS
  <2>1. ASSUME response_started
        PROVE  Len(Sent) > 0 /\ Sent[1].from = "app"
    <3>1. Sent \in {Opening("app"), AnswerOf("app")}
      BY <2>1 DEF IndInv, AnswersBelong
    <3>2. QED
      BY <3>1 DEF Opening, AnswerOf, From
  <2>2. QED
    BY <2>1 DEF IndInv, AnswersBelong, NothingIsLost, Oversized, OversizedIsRefused,
       TypeOK
<1>2. QED
  BY IndInvHolds, <1>1, PTL

(* Within the limit the middleware is invisible.                           *)
THEOREM InvisibleWithinTheLimit == Spec => []WithinTheLimitNothingIsLost
<1>1. IndInv => WithinTheLimitNothingIsLost
  <2>1. SubSeq(AnswerOf("app"), 1, 1) = Opening("app")
    BY Stages DEF Senders
  <2>2. QED
    BY <2>1 DEF IndInv, NothingIsLost, Oversized, WithinTheLimitNothingIsLost,
       Sent, TypeOK
<1>2. QED
  BY IndInvHolds, <1>1, PTL
=============================================================================
