----------------------- MODULE StreamExecution_proofs -----------------------
(***************************************************************************)
(* Theorems about one streamed execution, for any number of chunks and any *)
(* capacity of the two channels.                                           *)
(***************************************************************************)
EXTENDS StreamExecution, SequenceTheorems, TLAPS

-----------------------------------------------------------------------------
Number == Nat \ {0}   \* the chunks; Error is the one element of Nat that is none

StreamType ==
  /\ inCh \in Seq(Number) /\ outCh \in Seq(Nat) /\ received \in Seq(Nat)
  /\ held \in Nat /\ produced \in Nat
  /\ inClosed \in BOOLEAN /\ outClosed \in BOOLEAN

(* The runner holds a chunk exactly while it forwards one, the channel is  *)
(* closed last, and nothing runs before Submit.                            *)
Phases ==
  /\ runner = "forward" <=> held # 0
  /\ outClosed => runner = "done"
  /\ caller = "new" => runner = "none" /\ state = "PENDING"
  /\ state = "SUCCEEDED" => runner \in {"closing", "done"}

(* p is what the runner has passed on of the provider's chunks.            *)
LinedUp(p) == p \o Holding \o inCh = Numbers(produced)

AllPassed == inClosed /\ inCh = <<>>

(* Without an error: a stream that ended well, as opposed to a plain       *)
(* execution, has nothing more to come.                                    *)
InOrderSoFar(p) ==
  /\ Delivered = p
  /\ state = "SUCCEEDED" /\ (runner = "closing" \/ outClosed) => AllPassed

EndedInError(p) ==
  /\ Delivered = Append(p, Error)
  /\ runner \in {"closing", "done"} /\ state \in {"FAILED", "TIMED_OUT"}

Passed(p) == LinedUp(p) /\ (InOrderSoFar(p) \/ EndedInError(p))

StreamInv == StreamType /\ Phases /\ \E p \in Seq(Number) : Passed(p)

-----------------------------------------------------------------------------
(* A sequence is its head and its tail.                                    *)
LEMMA HeadAndTail ==
  ASSUME NEW S, NEW s \in Seq(S), s # <<>>
  PROVE  Head(s) \in S /\ Tail(s) \in Seq(S) /\ <<Head(s)>> \o Tail(s) = s
<1>1. Head(s) \in S /\ Tail(s) \in Seq(S) /\ Len(Tail(s)) = Len(s) - 1 /\ Len(s) \in Nat \ {0}
      /\ Head(s) = s[1] /\ \A i \in 1..Len(Tail(s)) : Tail(s)[i] = s[i + 1]
  BY HeadTailProperties, EmptySeq, LenProperties
<1>2. <<Head(s)>> \in Seq(S) /\ Len(<<Head(s)>>) = 1 /\ <<Head(s)>>[1] = Head(s)
  BY <1>1
<1> DEFINE t == <<Head(s)>> \o Tail(s)
<1>3. /\ t \in Seq(S) /\ Len(t) = 1 + Len(Tail(s))
      /\ \A i \in 1..1 + Len(Tail(s)) :
           t[i] = IF i <= 1 THEN <<Head(s)>>[i] ELSE Tail(s)[i - 1]
  BY <1>1, <1>2, ConcatProperties
<1> HIDE DEF t
<1>4. ASSUME NEW i \in 1..Len(t) PROVE t[i] = s[i]
  <2>1. CASE i = 1
    BY <1>1, <1>2, <1>3, <2>1
  <2>2. CASE i # 1
    BY <1>1, <1>3, <2>2
  <2> QED BY <2>1, <2>2
<1>5. Len(t) = Len(s)
  BY <1>1, <1>3
<1>6. t = s
  BY <1>3, <1>4, <1>5, SeqEqual
<1> QED BY <1>1, <1>6 DEF t

(* The last chunk of a channel is its data when it is no error.            *)
LEMMA DataOfChannel ==
  ASSUME NEW p \in Seq(Number)
  PROVE  Data(p) = p /\ Data(Append(p, Error)) = p
<1>1. p \in Seq(Nat) /\ Error \in Nat /\ Len(p) \in Nat
  BY SeqMonotonic, LenProperties DEF Number, Error
<1>2. Data(p) = p
  <2>1. CASE p # <<>>
    <3>1. Len(p) \in 1..Len(p)
      BY <2>1, EmptySeq
    <3>2. p[Len(p)] \in Number
      BY <3>1, ElementOfSeq
    <3> QED BY <3>2 DEF Data, Number, Error
  <2> QED BY <2>1 DEF Data
<1> DEFINE t == Append(p, Error)
<1>3. /\ t \in Seq(Nat) /\ t # <<>> /\ Len(t) = Len(p) + 1 /\ t[Len(p) + 1] = Error
      /\ \A i \in 1..Len(p) : t[i] = p[i]
  BY <1>1, AppendProperties
<1> HIDE DEF t
<1>4. Data(t) = SubSeq(t, 1, Len(p))
  BY <1>1, <1>3 DEF Data
<1>5. /\ SubSeq(t, 1, Len(p)) \in Seq(Nat) /\ Len(SubSeq(t, 1, Len(p))) = Len(p)
      /\ \A i \in 1..Len(p) : SubSeq(t, 1, Len(p))[i] = t[i]
  <2>1. \A i \in 1..Len(p) : t[i] \in Nat
    BY <1>1, <1>3, ElementOfSeq
  <2>2. Len(p) - 1 + 1 = Len(p) /\ (1 <= Len(p) \/ Len(p) = 0)
    BY <1>1
  <2>3. /\ SubSeq(t, 1, Len(p)) \in Seq(Nat)
        /\ Len(SubSeq(t, 1, Len(p))) = IF 1 <= Len(p) THEN Len(p) - 1 + 1 ELSE 0
        /\ \A i \in 1..Len(p) - 1 + 1 : SubSeq(t, 1, Len(p))[i] = t[1 + i - 1]
    BY <1>1, <2>1, SubSeqProperties
  <2>4. \A i \in 1..Len(p) : 1 + i - 1 = i
    OBVIOUS
  <2> QED BY <2>2, <2>3, <2>4
<1>6. Data(t) = p
  BY <1>1, <1>3, <1>4, <1>5, SeqEqual
<1> QED BY <1>2, <1>6 DEF t

(* Concatenation is associative: the form the steps below use. *)
LEMMA Regroup ==
  ASSUME NEW s \in Seq(Nat), NEW t \in Seq(Nat), NEW u \in Seq(Nat)
  PROVE  (s \o t) \o u = s \o (t \o u) /\ s \o t \in Seq(Nat)
<1>1. (s \o t) \o u = s \o (t \o u)
  BY ConcatAssociative, SMTT(60)
<1>2. s \o t \in Seq(Nat)
  BY ConcatProperties
<1> QED BY <1>1, <1>2

-----------------------------------------------------------------------------
(* The invariant says what it is about.                                    *)
LEMMA StreamInvImplies == StreamInv => NothingSkipped /\ SuccessIsComplete
<1> SUFFICES ASSUME StreamInv PROVE NothingSkipped /\ SuccessIsComplete
  OBVIOUS
<1>1. PICK p \in Seq(Number) : Passed(p)
  BY DEF StreamInv
<1>2. p \in Seq(Nat) /\ Error \in Nat /\ Len(p) \in Nat /\ DOMAIN p = 1..Len(p)
  BY SeqMonotonic, LenProperties DEF Number, Error
<1>3. Delivered = p \/ Delivered = Append(p, Error)
  BY <1>1 DEF Passed, InOrderSoFar, EndedInError
<1>4. Data(Delivered) \o Holding \o inCh = Numbers(produced)
  BY <1>1, <1>3, DataOfChannel DEF Passed, LinedUp
<1>5. \A j \in DOMAIN Delivered : Delivered[j] = Error => j = Len(Delivered)
  <2>1. \A j \in 1..Len(p) : p[j] # Error
    BY ElementOfSeq DEF Number, Error
  <2>2. CASE Delivered = p
    BY <1>2, <2>1, <2>2
  <2>3. CASE Delivered = Append(p, Error)
    <3>1. /\ Len(Delivered) = Len(p) + 1 /\ Delivered \in Seq(Nat)
          /\ \A i \in 1..Len(p) : Delivered[i] = p[i]
      BY <1>2, <2>3, AppendProperties
    <3>2. DOMAIN Delivered = 1..Len(p) + 1
      BY <3>1, LenProperties
    <3> QED BY <1>2, <2>1, <3>1, <3>2
  <2> QED BY <1>3, <2>2, <2>3
<1>6. SuccessIsComplete
  <2> SUFFICES ASSUME state = "SUCCEEDED", outClosed PROVE Delivered = Numbers(produced)
    BY DEF SuccessIsComplete
  <2>1. Delivered = p /\ inCh = <<>>
    BY <1>1 DEF Passed, InOrderSoFar, EndedInError, AllPassed
  <2>2. Holding = <<>>
    BY DEF StreamInv, Phases, Holding
  <2>3. (p \o <<>>) \o <<>> = p
    BY ConcatEmptySeq
  <2> QED BY <1>1, <2>1, <2>2, <2>3 DEF Passed, LinedUp
<1> QED BY <1>4, <1>5, <1>6 DEF NothingSkipped

(* Nothing has been produced.                                              *)
LEMMA StreamInit == Init => StreamInv
<1> SUFFICES ASSUME Init PROVE StreamInv
  OBVIOUS
<1>1. StreamType /\ Phases
  BY EmptySeq DEF Init, StreamType, Phases
<1>2. <<>> \in Seq(Number) /\ <<>> \o <<>> = <<>>
  BY EmptySeq, ConcatEmptySeq
<1>3. Delivered = <<>> /\ Holding \o inCh = <<>> /\ <<>> \o Holding = <<>>
  BY <1>2 DEF Init, Delivered, Holding
<1>4. Numbers(0) = <<>>
  BY SMT DEF Numbers
<1>5. Passed(<<>>)
  BY <1>2, <1>3, <1>4 DEF Init, Passed, LinedUp, InOrderSoFar, Holding
<1> QED BY <1>1, <1>2, <1>5 DEF StreamInv

(* A chunk moves from the provider's channel to the runner's hand.         *)
LEMMA TakesAChunk == StreamInv /\ SelectChunk => StreamInv'
<1> SUFFICES ASSUME StreamInv, SelectChunk PROVE StreamInv'
  OBVIOUS
<1>1. PICK p \in Seq(Number) : Passed(p)
  BY DEF StreamInv
<1>2. Head(inCh) \in Number /\ Tail(inCh) \in Seq(Number) /\ <<Head(inCh)>> \o Tail(inCh) = inCh
  BY HeadAndTail DEF StreamInv, StreamType, SelectChunk
<1>3. StreamType' /\ Phases'
  BY <1>2 DEF StreamInv, StreamType, Phases, SelectChunk, outVars, Number
<1>4. held = 0 /\ held' = Head(inCh) /\ held' # 0
  BY <1>2 DEF StreamInv, Phases, SelectChunk, Number
<1>5. p \in Seq(Nat) /\ <<Head(inCh)>> \in Seq(Nat) /\ Tail(inCh) \in Seq(Nat)
  BY <1>2, SeqMonotonic DEF Number
<1>6. LinedUp(p)'
  <2>1. (p \o <<Head(inCh)>>) \o Tail(inCh) = p \o inCh
    <3>1. (p \o <<Head(inCh)>>) \o Tail(inCh) = p \o (<<Head(inCh)>> \o Tail(inCh))
      BY <1>5, Regroup
    <3> QED BY <1>2, <3>1
  <2>2. p \o <<>> = p
    BY ConcatEmptySeq
  <2> QED BY <1>1, <1>4, <2>1, <2>2 DEF Passed, LinedUp, Holding, SelectChunk
<1>7. InOrderSoFar(p)'
  BY <1>1, <1>3 DEF Passed, InOrderSoFar, EndedInError, SelectChunk, outVars, Delivered,
                    Phases, StreamInv
<1> QED BY <1>3, <1>6, <1>7 DEF StreamInv, Passed

(* A chunk moves from the runner's hand to the consumer's channel.         *)
LEMMA ForwardsAChunk == StreamInv /\ Forward => StreamInv'
<1> SUFFICES ASSUME StreamInv, Forward PROVE StreamInv'
  OBVIOUS
<1>1. PICK p \in Seq(Number) : Passed(p)
  BY DEF StreamInv
<1>2. /\ held \in Number /\ held' = 0 /\ outCh' = Append(outCh, held)
      /\ inCh' = inCh /\ produced' = produced /\ received' = received
  BY DEF StreamInv, StreamType, Phases, Forward, Number, providerVars
<1>3. outCh' \in Seq(Nat)
  BY <1>2, AppendProperties DEF StreamInv, StreamType
<1>4. StreamType' /\ Phases'
  BY <1>2, <1>3 DEF StreamInv, StreamType, Phases, Forward, providerVars
<1>10. PICK q \in Seq(Number) : q = p \o <<held>>
  BY <1>2, AppendProperties, AppendIsConcat
<1>5. p \in Seq(Nat) /\ q \in Seq(Nat) /\ inCh \in Seq(Nat)
  BY SeqMonotonic DEF StreamInv, StreamType, Number
<1>6. LinedUp(q)'
  <2>1. q \o <<>> = q
    BY <1>5, ConcatEmptySeq
  <2>2. (p \o <<held>>) \o inCh = Numbers(produced)
    BY <1>1, <1>2 DEF Passed, LinedUp, Holding, Number
  <2> QED BY <1>2, <1>10, <2>1, <2>2 DEF LinedUp, Holding, Numbers
<1>7. Delivered = p
  BY <1>1 DEF Passed, InOrderSoFar, EndedInError, Forward
<1>8. Delivered' = q
  <2>1. Append(outCh, held) = outCh \o <<held>> /\ <<held>> \in Seq(Nat)
    BY <1>2, AppendIsConcat DEF StreamInv, StreamType, Number
  <2>2. (received \o outCh) \o <<held>> = received \o (outCh \o <<held>>)
    BY <2>1, Regroup DEF StreamInv, StreamType
  <2> QED BY <1>2, <1>10, <1>7, <2>1, <2>2 DEF Delivered
<1>9. InOrderSoFar(q)'
  <2>1. state' = state /\ runner' = "select"
    BY DEF Forward
  <2> QED BY <1>4, <1>8, <2>1 DEF InOrderSoFar, Phases
<1> QED BY <1>4, <1>5, <1>6, <1>9 DEF StreamInv, Passed

(* An error chunk goes out after everything else, and the runner stops.    *)
LEMMA EndsInError == StreamInv /\ (OpenFails \/ ForwardError) => StreamInv'
<1> SUFFICES ASSUME StreamInv, OpenFails \/ ForwardError PROVE StreamInv'
  OBVIOUS
<1>1. PICK p \in Seq(Number) : Passed(p)
  BY DEF StreamInv
<1>2. /\ runner \in {"open", "forwardError"} /\ held' = held /\ outCh' = Append(outCh, Error)
      /\ inCh' = inCh /\ produced' = produced /\ received' = received /\ caller' = caller
      /\ inClosed' = inClosed /\ outClosed' = outClosed
      /\ runner' = "closing" /\ state' \in {"FAILED", "TIMED_OUT"}
  BY DEF OpenFails, ForwardError, Finish, providerVars
<1>3. Error \in Nat
  BY DEF Error
<1>4. StreamType' /\ Phases'
  BY <1>2, <1>3, AppendProperties DEF StreamInv, StreamType, Phases
<1>5. LinedUp(p)'
  BY <1>1, <1>2 DEF Passed, LinedUp, Holding
<1>6. Delivered = p
  BY <1>1, <1>2 DEF Passed, InOrderSoFar, EndedInError
<1>7. Delivered' = Append(p, Error)
  <2>1. p \in Seq(Nat) /\ <<Error>> \in Seq(Nat) /\ Append(outCh, Error) = outCh \o <<Error>>
        /\ Append(p, Error) = p \o <<Error>>
    <3>1. p \in Seq(Nat) /\ outCh \in Seq(Nat)
      BY SeqMonotonic DEF StreamInv, StreamType, Number
    <3>2. <<Error>> \in Seq(Nat)
      BY <1>3
    <3> QED BY <1>3, <3>1, <3>2, AppendIsConcat
  <2>2. (received \o outCh) \o <<Error>> = received \o (outCh \o <<Error>>)
    BY <2>1, Regroup DEF StreamInv, StreamType
  <2> QED BY <1>2, <1>6, <2>1, <2>2 DEF Delivered
<1> QED BY <1>2, <1>4, <1>5, <1>7 DEF StreamInv, Passed, EndedInError

(* The provider's next chunk is the next number.                           *)
LEMMA ProducesAChunk == StreamInv /\ Produce => StreamInv'
<1> SUFFICES ASSUME StreamInv, Produce PROVE StreamInv'
  OBVIOUS
<1>1. PICK p \in Seq(Number) : Passed(p)
  BY DEF StreamInv
<1> DEFINE n == produced + 1
<1>2. n \in Number /\ inCh' = Append(inCh, n) /\ produced' = n /\ held' = held
  BY DEF StreamInv, StreamType, Produce, Number
<1>3. StreamType' /\ Phases'
  BY <1>2, AppendProperties DEF StreamInv, StreamType, Phases, Produce, outVars, Number
<1>4. LinedUp(p)'
  <2> DEFINE s == p \o Holding
  <2>1. s \in Seq(Nat) /\ inCh \in Seq(Nat) /\ <<n>> \in Seq(Nat)
    <3>1. Holding \in Seq(Nat)
      BY EmptySeq DEF Holding, StreamInv, StreamType
    <3>2. p \in Seq(Nat) /\ inCh \in Seq(Nat)
      BY SeqMonotonic DEF Number, StreamInv, StreamType
    <3> QED BY <1>2, <3>1, <3>2, ConcatProperties DEF Number
  <2> HIDE DEF s
  <2>2. s \o (inCh \o <<n>>) = (s \o inCh) \o <<n>>
    BY <2>1, Regroup
  <2>3. Append(inCh, n) = inCh \o <<n>>
    BY <1>2, <2>1, AppendIsConcat DEF Number
  <2>4. s \o inCh = Numbers(produced)
    BY <1>1 DEF Passed, LinedUp, s
  <2>5. Numbers(produced) \o <<n>> = Numbers(n)
    <3>1. /\ Numbers(produced) \in Seq(Nat) /\ Numbers(n) \in Seq(Nat)
          /\ Len(Numbers(produced)) = produced /\ Len(Numbers(n)) = n
      BY SMT DEF Numbers, StreamInv, StreamType
    <3>2. /\ Numbers(produced) \o <<n>> \in Seq(Nat)
          /\ Len(Numbers(produced) \o <<n>>) = produced + 1
          /\ \A i \in 1..produced + 1 : (Numbers(produced) \o <<n>>)[i] =
               IF i <= produced THEN Numbers(produced)[i] ELSE <<n>>[i - produced]
      <4>1. Len(<<n>>) = 1
        OBVIOUS
      <4> QED BY <2>1, <3>1, <4>1, ConcatProperties
    <3>3. ASSUME NEW i \in 1..n PROVE (Numbers(produced) \o <<n>>)[i] = Numbers(n)[i]
      <4>1. CASE i <= produced
        <5>1. Numbers(produced)[i] = i /\ Numbers(n)[i] = i
          BY <4>1 DEF Numbers, StreamInv, StreamType
        <5> QED BY <3>2, <4>1, <5>1
      <4>2. CASE i = n
        <5>1. n - produced = 1 /\ ~(n <= produced)
          BY DEF StreamInv, StreamType
        <5>2. Numbers(n)[n] = n
          BY <1>2 DEF Numbers, Number
        <5> QED BY <3>2, <4>2, <5>1, <5>2
      <4>3. i <= produced \/ i = n
        BY DEF StreamInv, StreamType
      <4> QED BY <4>1, <4>2, <4>3
    <3> QED BY <3>1, <3>2, <3>3, SeqEqual
  <2>6. Holding' = Holding
    BY <1>2 DEF Holding
  <2>7. s \o inCh' = Numbers(produced)'
    BY <1>2, <2>2, <2>3, <2>4, <2>5 DEF Numbers
  <2> QED BY <2>6, <2>7 DEF LinedUp, s
<1>5. Delivered' = Delivered
  BY DEF Produce, outVars, Delivered
<1>6. (InOrderSoFar(p) \/ EndedInError(p))'
  BY <1>1, <1>5 DEF Passed, InOrderSoFar, EndedInError, Produce, outVars, AllPassed
<1> QED BY <1>3, <1>4, <1>6 DEF StreamInv, Passed

(* What the consumer reads was delivered before and still is.              *)
LEMMA ReadingDelivers ==
  ASSUME StreamType, Receive
  PROVE  Delivered' = Delivered
<1>1. Head(outCh) \in Nat /\ Tail(outCh) \in Seq(Nat) /\ <<Head(outCh)>> \o Tail(outCh) = outCh
  BY HeadAndTail DEF StreamType, Receive
<1>2. received \in Seq(Nat) /\ <<Head(outCh)>> \in Seq(Nat)
  BY <1>1 DEF StreamType
<1>3. Append(received, Head(outCh)) = received \o <<Head(outCh)>>
  BY <1>1, AppendIsConcat DEF StreamType
<1>4. (received \o <<Head(outCh)>>) \o Tail(outCh) = received \o (<<Head(outCh)>> \o Tail(outCh))
  BY <1>1, <1>2, Regroup
<1> QED BY <1>1, <1>3, <1>4 DEF Delivered, Receive

(* Reading moves the head of the channel to the end of what has been read. *)
LEMMA ReadsAChunk == StreamInv /\ Receive => StreamInv'
<1> SUFFICES ASSUME StreamInv, Receive PROVE StreamInv'
  OBVIOUS
<1>1. PICK p \in Seq(Number) : Passed(p)
  BY DEF StreamInv
<1>2. Head(outCh) \in Nat /\ Tail(outCh) \in Seq(Nat) /\ <<Head(outCh)>> \o Tail(outCh) = outCh
  BY HeadAndTail DEF StreamInv, StreamType, Receive
<1>3. StreamType' /\ Phases'
  BY <1>2, AppendProperties DEF StreamInv, StreamType, Phases, Receive, providerVars
<1>4. Delivered' = Delivered
  BY ReadingDelivers DEF StreamInv
<1>5. Passed(p)'
  BY <1>1, <1>4 DEF Passed, LinedUp, InOrderSoFar, EndedInError, Receive, providerVars,
                    Holding, AllPassed
<1> QED BY <1>3, <1>5 DEF StreamInv

(* Every other step leaves the chunks where they are.                      *)
LEMMA OtherSteps ==
  ASSUME StreamInv,
         \/ StreamSubmit \/ StreamRegister \/ Start \/ Lookup \/ PlainEnd \/ Open \/ SelectEnd
         \/ SelectDone \/ Close \/ ProviderEnds \/ Deadline \/ Cancel \/ UNCHANGED vars
  PROVE  StreamInv'
<1> USE DEF StreamSubmit, StreamRegister, Start, Lookup, PlainEnd, Open, SelectEnd, Finish,
            SelectDone, Close, ProviderEnds, Deadline, Cancel, ContextEnds, vars, providerVars, outVars
<1>1. PICK p \in Seq(Number) : Passed(p)
  BY DEF StreamInv
<1>2. /\ inCh' = inCh /\ outCh' = outCh /\ received' = received
      /\ held' = held /\ produced' = produced
  OBVIOUS
<1>3. StreamType' /\ Phases'
  <2>1. StreamType /\ Phases
    BY DEF StreamInv
  <2>2. inClosed' \in {TRUE, inClosed} /\ outClosed' \in {TRUE, outClosed}
    OBVIOUS
  <2>3. StreamType'
    BY <1>2, <2>1, <2>2 DEF StreamType
  <2>4. (runner = "forward" <=> held # 0)'
    BY <1>2, <2>1 DEF Phases
  <2>5. (outClosed => runner = "done")'
    BY <2>1 DEF Phases
  <2>6. (caller = "new" => runner = "none" /\ state = "PENDING")'
    BY <2>1 DEF Phases
  <2>7. (state = "SUCCEEDED" => runner \in {"closing", "done"})'
    BY <2>1 DEF Phases
  <2> QED BY <2>3, <2>4, <2>5, <2>6, <2>7 DEF Phases
<1>4. LinedUp(p)' /\ Delivered' = Delivered
  BY <1>1, <1>2 DEF Passed, LinedUp, Holding, Delivered
<1>5. (InOrderSoFar(p) \/ EndedInError(p))'
  BY <1>1, <1>2, <1>3, <1>4
     DEF Passed, InOrderSoFar, EndedInError, AllPassed, StreamInv, StreamType, Phases
<1> QED BY <1>3, <1>4, <1>5 DEF StreamInv, Passed

(* Every step keeps the invariant.                                         *)
LEMMA StreamNext == StreamInv /\ [Next]_vars => StreamInv'
BY TakesAChunk, ForwardsAChunk, EndsInError, ProducesAChunk, ReadsAChunk, OtherSteps
   DEF Next, Runner

-----------------------------------------------------------------------------
(* What the consumer has read, what is buffered on either side of the      *)
(* runner and what the runner holds are the provider's chunks, in order,   *)
(* none lost and none twice, and the error chunk is the last.              *)
THEOREM StreamsSkipNothing == Spec => []NothingSkipped
  BY StreamInit, StreamNext, StreamInvImplies, PTL DEF Spec

(* A stream that ended as SUCCEEDED has passed on every chunk.             *)
THEOREM SuccessfulStreamsAreComplete == Spec => []SuccessIsComplete
  BY StreamInit, StreamNext, StreamInvImplies, PTL DEF Spec

-----------------------------------------------------------------------------
(* Go's channels: a send must find room or a reader, and a closed channel   *)
(* must not be sent to.                                                     *)

(* Neither channel ever holds more than it can.  This is also why the send  *)
(* of the error when the provider cannot open the stream, which waits for   *)
(* nobody, always finds room (manager.go 832).                              *)
WithinCapacity == Len(inCh) <= InBuffer /\ Len(outCh) <= OutBuffer

RoomInv ==
  /\ WithinCapacity
  /\ runner \in {"none", "lookup", "plain", "open"} => outCh = <<>>

(* One chunk more or less. *)
LEMMA ChunkCounts ==
  ASSUME NEW s \in Seq(Nat), NEW n \in Nat
  PROVE  /\ Len(Append(s, n)) = Len(s) + 1 /\ Len(s) \in Nat
         /\ s # <<>> => Len(Tail(s)) = Len(s) - 1
<1>1. Len(Append(s, n)) = Len(s) + 1 /\ Len(s) \in Nat
  BY AppendProperties, LenProperties
<1>2. s # <<>> => Len(Tail(s)) = Len(s) - 1
  BY HeadTailProperties
<1> QED BY <1>1, <1>2

(* Whoever sends has seen room, or is the first to send. *)
LEMMA RoomNext == StreamInv /\ RoomInv /\ [Next]_vars => RoomInv'
<1> SUFFICES ASSUME StreamInv, RoomInv, [Next]_vars PROVE RoomInv'
  OBVIOUS
<1> USE StreamAssumption DEF RoomInv, WithinCapacity, providerVars, outVars, Finish
<1>0. /\ outCh \in Seq(Nat) /\ inCh \in Seq(Nat) /\ held \in Nat /\ produced + 1 \in Nat
      /\ Error \in Nat
  BY SeqMonotonic DEF StreamInv, StreamType, Number, Error
<1>1. CASE OpenFails
  <2>1. outCh = <<>> /\ outCh' = Append(outCh, Error) /\ inCh' = inCh /\ runner' = "closing"
    BY <1>1 DEF OpenFails
  <2>2. Len(outCh) = 0
    BY <2>1
  <2> QED BY <1>0, <2>1, <2>2, ChunkCounts
<1>2. CASE Forward
  BY <1>0, <1>2, ChunkCounts DEF Forward
<1>3. CASE ForwardError
  BY <1>0, <1>3, ChunkCounts DEF ForwardError
<1>4. CASE Produce
  BY <1>0, <1>4, ChunkCounts DEF Produce
<1>5. CASE SelectChunk
  BY <1>0, <1>5, ChunkCounts DEF SelectChunk
<1>6. CASE Receive
  BY <1>0, <1>6, ChunkCounts DEF Receive
<1>7. CASE \/ StreamSubmit \/ StreamRegister \/ Start \/ Lookup \/ PlainEnd \/ Open \/ SelectEnd
           \/ SelectDone \/ Close \/ ProviderEnds \/ Deadline \/ Cancel \/ UNCHANGED vars
  BY <1>7 DEF StreamSubmit, StreamRegister, Start, Lookup, PlainEnd, Open, SelectEnd, SelectDone,
              Close, ProviderEnds, Deadline, Cancel, ContextEnds, vars
<1> QED BY <1>1, <1>2, <1>3, <1>4, <1>5, <1>6, <1>7 DEF Next, Runner

(* No channel holds more than its capacity.                                *)
THEOREM ChannelsAreBounded == Spec => []WithinCapacity
<1>1. Init => RoomInv
  <2>1. Len(<<>>) = 0
    BY EmptySeq
  <2> QED BY <2>1, StreamAssumption DEF Init, RoomInv, WithinCapacity
<1>2. RoomInv => WithinCapacity
  BY DEF RoomInv
<1> QED BY <1>1, <1>2, StreamInit, StreamNext, RoomNext, PTL DEF Spec

(* The channel of a stream is closed once, by its runner's last step, and   *)
(* nothing is sent to it afterwards; the consumer can still read what is in *)
(* it.                                                                      *)
ClosedForGood == [][outClosed => outClosed' /\ Delivered' = Delivered]_vars

(* Nobody sends to a closed channel, which would be a panic.               *)
THEOREM NoSendAfterClose == Spec => ClosedForGood
<1>1. ASSUME StreamInv, Next, outClosed PROVE outClosed' /\ Delivered' = Delivered
  <2>1. runner = "done" /\ StreamType /\ caller # "new"
    BY <1>1 DEF StreamInv, Phases
  <2>2. CASE Receive
    BY <1>1, <2>1, <2>2, ReadingDelivers DEF Receive
  <2>3. ~Runner /\ ~StreamSubmit
    BY <2>1 DEF Runner, Start, Lookup, PlainEnd, OpenFails, Open, SelectChunk, SelectEnd, SelectDone,
                Forward, ForwardError, Close, StreamSubmit
  <2>4. CASE StreamRegister \/ Produce \/ ProviderEnds \/ Deadline \/ Cancel
    BY <1>1, <2>4 DEF StreamRegister, Produce, ProviderEnds, Deadline, Cancel, ContextEnds,
                      providerVars, outVars, Delivered
  <2> QED BY <1>1, <2>2, <2>3, <2>4 DEF Next
<1>2. ASSUME StreamInv, [Next]_vars PROVE [outClosed => outClosed' /\ Delivered' = Delivered]_vars
  BY <1>1, <1>2
<1> QED BY <1>2, StreamInit, StreamNext, PTL DEF Spec, ClosedForGood
=============================================================================
