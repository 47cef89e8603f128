--------------------------- MODULE StreamPumpProofs ---------------------------
(***************************************************************************)
(* Proofs about StreamPump, for any number of streams, of slots and of     *)
(* frames: slots are given back, a measurement is exact, and a record      *)
(* without an error belongs to a complete stream.                          *)
(***************************************************************************)
EXTENDS StreamPump, FiniteSetTheorems, TLAPS

-------------------------------------------------------------------------------
(* What the pump's updates do to the records of one stream. *)

(* A client found to be gone: nothing but the writer and the flag change. *)
LEMMA LostResult ==
  ASSUME NEW x \in PumpResult
  PROVE  LET y == [x EXCEPT !.disconnected = TRUE, !.writer = FALSE]
         IN  /\ y \in PumpResult
             /\ ~y.writer /\ (y.drained <=> x.drained) /\ (y.sawDone <=> x.sawDone)
BY DEF PumpResult

(* A frame, or the end of the body: only sawDone and the chunks change. *)
LEMMA FrameResult ==
  ASSUME NEW x \in PumpResult, NEW b \in BOOLEAN, NEW n \in Nat
  PROVE  LET y == [x EXCEPT !.sawDone = b, !.chunks = n]
         IN  /\ y \in PumpResult
             /\ (y.writer <=> x.writer) /\ (y.drained <=> x.drained) /\ y.sawDone = b
BY DEF PumpResult

LEMMA FlagResult ==
  ASSUME NEW x \in PumpResult, NEW b \in BOOLEAN
  PROVE  /\ [x EXCEPT !.broke = b] \in PumpResult
         /\ [x EXCEPT !.broke = b].writer = x.writer
         /\ [x EXCEPT !.broke = b].drained = x.drained
         /\ [x EXCEPT !.broke = b].sawDone = x.sawDone
         /\ [x EXCEPT !.drained = b] \in PumpResult
         /\ [x EXCEPT !.drained = b].writer = x.writer
         /\ [x EXCEPT !.drained = b].drained = b
         /\ [x EXCEPT !.drained = b].sawDone = x.sawDone
BY DEF PumpResult

-------------------------------------------------------------------------------
(* The steps of the loop that read no frame have one shape: a stream that   *)
(* is in the loop moves on, and of its accounts only the result changes.    *)
Turn(s, label, x) ==
    /\ Goto(s, label)
    /\ result' = [result EXCEPT ![s] = x]
    /\ slots' \subseteq slots \cup {s}
    /\ UNCHANGED <<call, client, upstream, record>>

InLoop(s) == \/ CheckClient(s) \/ TakeSlot(s) \/ SlotTimeout(s) \/ ReadEOF(s)
             \/ ReadError(s) \/ WriteChunk(s) \/ WriteFails(s)

LEMMA LoopTurns ==
  ASSUME TypeOK, NEW s \in Streams, InLoop(s)
  PROVE  /\ pc[s] \in Running
         /\ \E label \in Running \cup {"ended"}, x \in PumpResult :
               /\ Turn(s, label, x)
               /\ x.sawDone => result[s].sawDone \/ dialect[s] # "openai"
<1> DEFINE same == result[s]
           lost == [result[s] EXCEPT !.disconnected = TRUE, !.writer = FALSE]
<1> USE DEF Turn, Goto, Leave, Running
<1>1. same \in PumpResult /\ result = [result EXCEPT ![s] = same]
  BY DEF TypeOK
<1>2. lost \in PumpResult /\ (lost.sawDone <=> result[s].sawDone)
  BY <1>1, LostResult
<1> HIDE DEF same, lost
<1>3. CASE CheckClient(s)
  <2>1. CASE result[s].writer /\ client[s] = "gone"
    <3>1. result' = [result EXCEPT ![s] = lost]
      BY <1>3, <2>1 DEF CheckClient, lost
    <3> QED
      BY <1>2, <1>3, <2>1, <3>1 DEF CheckClient
  <2>2. CASE ~(result[s].writer /\ client[s] = "gone")
    BY <1>1, <1>3, <2>2 DEF CheckClient, same
  <2> QED
    BY <2>1, <2>2
<1>4. CASE TakeSlot(s)
  <2> DEFINE x == [result[s] EXCEPT !.drained = TRUE]
  <2>1. x \in PumpResult /\ x.sawDone = result[s].sawDone
    BY <1>1, FlagResult DEF same
  <2>2. result' = [result EXCEPT ![s] = x]
    BY <1>4 DEF TakeSlot
  <2> HIDE DEF x
  <2> QED
    BY <1>4, <2>1, <2>2 DEF TakeSlot
<1>5. CASE SlotTimeout(s)
  BY <1>1, <1>5 DEF SlotTimeout, same
<1>6. CASE ReadEOF(s)
  <2> DEFINE n == ChunksAfter(s, result[s].writer /\ Trailing(s))
             b == result[s].sawDone \/ (result[s].writer /\ dialect[s] # "openai")
             x == [result[s] EXCEPT !.chunks = n, !.sawDone = b]
  <2>1. n \in Nat
    BY <1>1 DEF same, PumpResult, ChunksAfter
  <2>2. b \in BOOLEAN
    OBVIOUS
  <2>3. result' = [result EXCEPT ![s] = x]
    BY <1>6 DEF ReadEOF
  <2>4. b => result[s].sawDone \/ dialect[s] # "openai"
    OBVIOUS
  <2> HIDE DEF n, b
  <2>5. x \in PumpResult /\ x.sawDone = b
    BY <1>1, <2>1, <2>2 DEF same, PumpResult
  <2> HIDE DEF x
  <2> QED
    BY <1>6, <2>3, <2>4, <2>5 DEF ReadEOF
<1>7. CASE ReadError(s)
  <2> DEFINE x == [result[s] EXCEPT !.broke = TRUE]
  <2>1. x \in PumpResult /\ x.sawDone = result[s].sawDone
    BY <1>1, FlagResult DEF same
  <2>2. result' = [result EXCEPT ![s] = x]
    BY <1>7 DEF ReadError
  <2> HIDE DEF x
  <2> QED
    BY <1>7, <2>1, <2>2 DEF ReadError
<1>8. CASE WriteChunk(s)
  BY <1>1, <1>8 DEF WriteChunk, same
<1>9. CASE WriteFails(s)
  <2>1. result' = [result EXCEPT ![s] = lost]
    BY <1>9 DEF WriteFails, LoseClient, lost
  <2> QED
    BY <1>2, <1>9, <2>1 DEF WriteFails, LoseClient
<1> QED
  BY <1>3, <1>4, <1>5, <1>6, <1>7, <1>8, <1>9 DEF InLoop

(* A frame that is read. *)
Frame(s, f, bad, k, x) ==
    /\ f \in Following(dialect[s], last[s])
    /\ last' = [last EXCEPT ![s] = f]
    /\ texts'[s] \in 0 .. MaxText
    /\ texts' = [texts EXCEPT ![s] = IF f = "text" THEN @ + 1 ELSE @]
    /\ heard' = [heard EXCEPT ![s] = k]
    /\ result' = [result EXCEPT ![s] = x]
    /\ UNCHANGED <<call, client, record>>
    /\ k.stated = IF ~bad /\ StatesUsage(dialect[s], f) THEN texts'[s] ELSE heard[s].stated
    /\ k.closed <=> heard[s].closed \/ (~bad /\ f = FinalFrame(dialect[s]))
    /\ k.unparsed <=> heard[s].unparsed \/ bad
    /\ x.sawDone <=> result[s].sawDone \/ f = "done"
    /\ (x.writer <=> result[s].writer) /\ (x.drained <=> result[s].drained)

LEMMA FrameTurns ==
  ASSUME TypeOK, NEW s \in Streams, NEW f \in Frames, NEW bad \in BOOLEAN,
         ReadFrame(s, f, bad)
  PROVE  \E k \in Knowledge, x \in PumpResult : Frame(s, f, bad, k, x)
<1> DEFINE n == IF ~bad /\ StatesUsage(dialect[s], f) THEN texts'[s] ELSE heard[s].stated
           b == heard[s].closed \/ (~bad /\ f = FinalFrame(dialect[s]))
           c == heard[s].unparsed \/ bad
           d == result[s].sawDone \/ f = "done"
           m == ChunksAfter(s, Renders(s, f, bad))
           k == [heard[s] EXCEPT !.stated = n, !.closed = b, !.unparsed = c]
           x == [result[s] EXCEPT !.sawDone = d, !.chunks = m]
<1>1. heard[s] \in Knowledge /\ result[s] \in PumpResult
  BY DEF TypeOK
<1>2. texts'[s] \in 0 .. MaxText
  BY MaxTextNatural DEF TypeOK, ReadFrame
<1>3. n \in -1 .. MaxText
  BY <1>1, <1>2, MaxTextNatural DEF Knowledge
<1>4. m \in Nat
  BY <1>1 DEF PumpResult, ChunksAfter
<1>5. b \in BOOLEAN /\ c \in BOOLEAN /\ d \in BOOLEAN
  OBVIOUS
<1>6. heard' = [heard EXCEPT ![s] = k] /\ result' = [result EXCEPT ![s] = x]
  BY DEF ReadFrame
<1>7. /\ k \in Knowledge /\ k.stated = n /\ k.closed = b /\ k.unparsed = c
  <2> HIDE DEF n, b, c
  <2> QED
    BY <1>1, <1>3, <1>5 DEF Knowledge
<1>8. /\ x \in PumpResult /\ (x.writer <=> result[s].writer)
      /\ (x.drained <=> result[s].drained) /\ x.sawDone = d
  <2> HIDE DEF d, m
  <2> QED
    BY <1>1, <1>4, <1>5, FrameResult
<1> HIDE DEF k, x
<1>9. Frame(s, f, bad, k, x)
  BY <1>2, <1>6, <1>7, <1>8 DEF Frame, ReadFrame
<1> QED
  BY <1>7, <1>8, <1>9

-------------------------------------------------------------------------------
(* The type invariant. *)

LEMMA PumpTypeInit == Init => TypeOK
<1> SUFFICES ASSUME Init PROVE TypeOK
  OBVIOUS
<1>1. (CHOOSE d \in Dialects : TRUE) \in Dialects
  BY DialectsKnown
<1>2. Nothing \in Knowledge /\ Fresh \in PumpResult
  BY MaxTextNatural DEF Nothing, Fresh, Knowledge, PumpResult
<1> QED
  BY <1>1, <1>2, MaxTextNatural
  DEF Init, TypeOK, NoRecord, Policies, Frames, Running

LEMMA PumpTypeStep == TypeOK /\ [Next]_vars => TypeOK'
<1> SUFFICES ASSUME TypeOK, [Next]_vars PROVE TypeOK'
  OBVIOUS
<1> USE DEF Running, Goto, call, upstream
<1>1. ASSUME NEW s \in Streams, NEW d \in Dialects, NEW p \in Policies,
             NEW w \in BOOLEAN, NEW flushed \in BOOLEAN, Open(s, d, p, w, flushed)
      PROVE  TypeOK'
  <2> DEFINE b == ~flushed
             x == [result[s] EXCEPT !.broke = b]
  <2>1. b \in BOOLEAN /\ result[s] \in PumpResult
    BY DEF TypeOK
  <2>2. result' = [result EXCEPT ![s] = x]
    BY <1>1 DEF Open
  <2> HIDE DEF b
  <2>3. x \in PumpResult
    BY <2>1, FlagResult
  <2> HIDE DEF x
  <2> QED
    <3>1. pc' \in [Streams -> Running \cup {"reserved", "released", "ended", "settled"}]
      BY <1>1 DEF TypeOK, Open
    <3>2. /\ dialect' \in [Streams -> Dialects] /\ policy' \in [Streams -> Policies]
          /\ wants' \in [Streams -> BOOLEAN]
      BY <1>1 DEF TypeOK, Open
    <3>3. result' \in [Streams -> PumpResult]
      BY <2>2, <2>3 DEF TypeOK
    <3> QED
      BY <1>1, <3>1, <3>2, <3>3 DEF TypeOK, Open
<1>2. ASSUME NEW s \in Streams, OpenFails(s) PROVE TypeOK'
  BY <1>2 DEF TypeOK, OpenFails
<1>3. ASSUME NEW s \in Streams, NEW to \in {"stalled", "gone"}, ClientGoes(s, to)
      PROVE  TypeOK'
  BY <1>3 DEF TypeOK, ClientGoes
<1>4. ASSUME NEW s \in Streams, NEW f \in Frames, NEW bad \in BOOLEAN, ReadFrame(s, f, bad)
      PROVE  TypeOK'
  <2>1. PICK k \in Knowledge, x \in PumpResult : Frame(s, f, bad, k, x)
    BY <1>4, FrameTurns
  <2>2. /\ pc' \in [Streams -> Running \cup {"reserved", "released", "ended", "settled"}]
        /\ slots' \subseteq Streams
    BY <1>4 DEF TypeOK, ReadFrame, Leave
  <2>3. texts' \in [Streams -> 0 .. MaxText]
    BY <2>1 DEF TypeOK, Frame
  <2> QED
    BY <2>1, <2>2, <2>3 DEF TypeOK, Frame
<1>5. ASSUME NEW s \in Streams, InLoop(s) PROVE TypeOK'
  <2>1. PICK label \in Running \cup {"ended"}, x \in PumpResult : Turn(s, label, x)
    BY <1>5, LoopTurns
  <2> QED
    BY <2>1 DEF TypeOK, Turn
<1>6. ASSUME NEW s \in Streams, Settle(s) PROVE TypeOK'
  <2> DEFINE r == [written |-> TRUE, output |-> SettledOutput(s),
                   source |-> UsageSource(s), error |-> ErrorCode(s),
                   disconnected |-> result[s].disconnected]
  <2>1. /\ result[s].disconnected \in BOOLEAN /\ result[s].chunks \in Nat
        /\ heard[s].stated \in -1 .. MaxText
    BY DEF TypeOK, PumpResult, Knowledge
  <2>2. SettledOutput(s) \in Nat
    BY <2>1, MaxTextNatural DEF SettledOutput
  <2>3. /\ UsageSource(s) \in {"provider", "estimate", "tokenizer"}
        /\ ErrorCode(s) \in {"none", "stream_interrupted", "stream_truncated"}
    BY DEF UsageSource, ErrorCode
  <2>4. record' = [record EXCEPT ![s] = r]
    BY <1>6 DEF Settle
  <2>5. r \in [written: BOOLEAN, output: Nat,
               source: {"none", "provider", "estimate", "tokenizer"},
               error: {"none", "stream_interrupted", "stream_truncated"},
               disconnected: BOOLEAN]
    BY <2>1, <2>2, <2>3
  <2> HIDE DEF r
  <2> QED
    BY <1>6, <2>4, <2>5 DEF TypeOK, Settle
<1>7. CASE UNCHANGED vars
  BY <1>7 DEF TypeOK, vars
<1> QED
  BY <1>1, <1>2, <1>3, <1>4, <1>5, <1>6, <1>7 DEF Next, PumpStep, InLoop

-------------------------------------------------------------------------------
(* The semaphore. *)

(* Slots that are taken away leave a finite set, and no more than before. *)
LEMMA FewerSlots ==
  ASSUME NEW S, IsFiniteSet(S), Cardinality(S) <= MaxDrains, NEW T \in SUBSET S
  PROVE  IsFiniteSet(T) /\ Cardinality(T) <= MaxDrains
<1>1. IsFiniteSet(T) /\ Cardinality(T) <= Cardinality(S)
  BY FS_Subset
<1>2. Cardinality(T) \in Nat /\ Cardinality(S) \in Nat
  BY <1>1, FS_CardinalityType
<1> QED
  BY <1>1, <1>2, MaxDrainsPositive

(* A stream that moves keeps the invariant if its own part of it holds. *)
LEMMA SlotMove ==
  ASSUME TypeOK, SlotInv, NEW s \in Streams, NEW label, NEW x \in PumpResult,
         pc' = [pc EXCEPT ![s] = label], result' = [result EXCEPT ![s] = x],
         slots' \subseteq slots,
         s \in slots' => label \in {"check", "read"} /\ x.drained /\ ~x.writer,
         label = "wait_slot" => ~x.writer
  PROVE  SlotInv'
<1>1. IsFiniteSet(slots') /\ Cardinality(slots') <= MaxDrains
  BY FewerSlots DEF SlotInv
<1>2. pc'[s] = label /\ result'[s] = x
  BY DEF TypeOK
<1>3. \A q \in Streams \ {s} : pc'[q] = pc[q] /\ result'[q] = result[q]
  BY DEF TypeOK
<1> QED
  BY <1>1, <1>2, <1>3 DEF SlotInv, TypeOK

LEMMA SlotStep == TypeOK /\ SlotInv /\ [Next]_vars => SlotInv'
<1> SUFFICES ASSUME TypeOK, SlotInv, [Next]_vars PROVE SlotInv'
  OBVIOUS
<1> USE DEF Goto
<1>0. \A s \in Streams : /\ result[s] \in PumpResult
                         /\ result = [result EXCEPT ![s] = result[s]]
  BY DEF TypeOK
<1>1. ASSUME NEW s \in Streams, NEW d \in Dialects, NEW p \in Policies,
             NEW w \in BOOLEAN, NEW flushed \in BOOLEAN, Open(s, d, p, w, flushed)
      PROVE  SlotInv'
  <2> DEFINE b == ~flushed
             x == [result[s] EXCEPT !.broke = b]
  <2>1. b \in BOOLEAN
    OBVIOUS
  <2>2. result' = [result EXCEPT ![s] = x]
    BY <1>1 DEF Open
  <2> HIDE DEF b
  <2>3. x \in PumpResult
    BY <1>0, <2>1, FlagResult
  <2> HIDE DEF x
  <2>4. s \notin slots /\ slots' = slots
    BY <1>1 DEF Open, SlotInv
  <2> DEFINE label == IF flushed THEN "check" ELSE "ended"
  <2>5. pc' = [pc EXCEPT ![s] = label] /\ label # "wait_slot"
    BY <1>1 DEF Open
  <2> HIDE DEF label
  <2> QED
    BY <2>2, <2>3, <2>4, <2>5, SlotMove
<1>2. ASSUME NEW s \in Streams, OpenFails(s) PROVE SlotInv'
  BY <1>0, <1>2, SlotMove DEF OpenFails, SlotInv
<1>3. ASSUME NEW s \in Streams, NEW to \in {"stalled", "gone"}, ClientGoes(s, to)
      PROVE  SlotInv'
  BY <1>3 DEF SlotInv, ClientGoes
<1>4. ASSUME NEW s \in Streams, NEW f \in Frames, NEW bad \in BOOLEAN, ReadFrame(s, f, bad)
      PROVE  SlotInv'
  <2>1. PICK k \in Knowledge, x \in PumpResult : Frame(s, f, bad, k, x)
    BY <1>4, FrameTurns
  <2>2. PICK label \in {"write", "check", "ended"} :
              /\ pc' = [pc EXCEPT ![s] = label]
              /\ slots' \subseteq slots
              /\ label = "ended" => s \notin slots'
              /\ label = "write" => result[s].writer
    BY <1>4 DEF ReadFrame, Leave
  <2> QED
    BY <2>1, <2>2, SlotMove DEF Frame, SlotInv
<1>5. ASSUME NEW s \in Streams, CheckClient(s) PROVE SlotInv'
  <2>1. CASE result[s].writer /\ client[s] = "gone"
    <3> DEFINE x == [result[s] EXCEPT !.disconnected = TRUE, !.writer = FALSE]
    <3>1. result' = [result EXCEPT ![s] = x]
      BY <1>5, <2>1 DEF CheckClient
    <3>2. x \in PumpResult /\ ~x.writer
      BY <1>0, LostResult
    <3> HIDE DEF x
    <3> QED
      BY <1>5, <2>1, <3>1, <3>2, SlotMove DEF CheckClient, SlotInv
  <2>2. CASE ~(result[s].writer /\ client[s] = "gone")
    BY <1>0, <1>5, <2>2, SlotMove DEF CheckClient, SlotInv
  <2> QED
    BY <2>1, <2>2
<1>6. ASSUME NEW s \in Streams, TakeSlot(s) PROVE SlotInv'
  <2> DEFINE x == [result[s] EXCEPT !.drained = TRUE]
  <2>1. result' = [result EXCEPT ![s] = x]
    BY <1>6 DEF TakeSlot
  <2>2. x \in PumpResult /\ x.drained /\ x.writer = result[s].writer
    BY <1>0, FlagResult
  <2>3. ~result[s].writer
    BY <1>6 DEF TakeSlot, SlotInv
  <2> HIDE DEF x
  <2>4. IsFiniteSet(slots') /\ Cardinality(slots') <= MaxDrains
    <3>1. slots' = slots \cup {s} /\ Cardinality(slots) < MaxDrains
      BY <1>6 DEF TakeSlot
    <3>2. s \notin slots /\ IsFiniteSet(slots)
      BY <1>6 DEF TakeSlot, SlotInv
    <3>3. IsFiniteSet(slots') /\ Cardinality(slots') = Cardinality(slots) + 1
      BY <3>1, <3>2, FS_AddElement
    <3> QED
      BY <3>1, <3>2, <3>3, FS_CardinalityType, MaxDrainsPositive
  <2>5. \A q \in Streams \ {s} : pc'[q] = pc[q] /\ result'[q] = result[q]
    BY <1>6, <2>1 DEF TypeOK, TakeSlot
  <2>6. pc'[s] = "read" /\ result'[s] = x
    BY <1>6, <2>1 DEF TypeOK, TakeSlot
  <2> QED
    BY <1>6, <2>2, <2>3, <2>4, <2>5, <2>6 DEF SlotInv, TypeOK, TakeSlot
<1>7. ASSUME NEW s \in Streams, SlotTimeout(s) PROVE SlotInv'
  BY <1>0, <1>7, SlotMove DEF SlotTimeout, SlotInv
<1>8. ASSUME NEW s \in Streams, ReadEOF(s) \/ ReadError(s) PROVE SlotInv'
  <2>1. PICK label \in Running \cup {"ended"}, x \in PumpResult : Turn(s, label, x)
    BY <1>8, LoopTurns DEF InLoop
  <2>2. pc' = [pc EXCEPT ![s] = "ended"] /\ slots' = slots \ {s}
    BY <1>8 DEF ReadEOF, ReadError, Leave
  <2> QED
    BY <2>1, <2>2, SlotMove DEF Turn
<1>9. ASSUME NEW s \in Streams, WriteChunk(s) \/ WriteFails(s) PROVE SlotInv'
  <2>1. PICK label \in Running \cup {"ended"}, x \in PumpResult : Turn(s, label, x)
    BY <1>9, LoopTurns DEF InLoop
  <2>2. PICK to \in {"check", "ended"} : pc' = [pc EXCEPT ![s] = to]
    BY <1>9 DEF WriteChunk, WriteFails, LoseClient, Leave
  <2>3. slots' \subseteq slots /\ s \notin slots
    BY <1>9 DEF WriteChunk, WriteFails, LoseClient, Leave, SlotInv
  <2> QED
    BY <2>1, <2>2, <2>3, SlotMove DEF Turn
<1>10. ASSUME NEW s \in Streams, Settle(s) PROVE SlotInv'
  BY <1>0, <1>10, SlotMove DEF Settle, SlotInv
<1>11. CASE UNCHANGED vars
  BY <1>11 DEF SlotInv, vars
<1> QED
  BY <1>1, <1>2, <1>3, <1>4, <1>5, <1>6, <1>7, <1>8, <1>9, <1>10, <1>11 DEF Next, PumpStep

-------------------------------------------------------------------------------
(* The accounts. *)

(* The accounts of a stream are its own: a stream of which nothing changes  *)
(* keeps them.                                                              *)
Untouched(q) ==
    /\ pc'[q] = pc[q] /\ dialect'[q] = dialect[q] /\ last'[q] = last[q]
    /\ texts'[q] = texts[q] /\ heard'[q] = heard[q] /\ result'[q] = result[q]
    /\ record'[q] = record[q]

LEMMA OthersUntouched ==
  ASSUME AccountInv, NEW s \in Streams,
         \A q \in Streams \ {s} : Untouched(q), Told(s)', Kept(s)'
  PROVE  AccountInv'
<1>1. ASSUME NEW q \in Streams \ {s} PROVE Told(q)' /\ Kept(q)'
  <2>1. Untouched(q) /\ Told(q) /\ Kept(q)
    BY <1>1 DEF AccountInv
  <2>2. Told(q)'
    BY <2>1 DEF Untouched, Told, FinalFrame
  <2>3. Kept(q)'
    BY <2>1 DEF Untouched, Kept, Reported, ClosedCleanly
  <2> QED
    BY <2>2, <2>3
<1> QED
  BY <1>1 DEF AccountInv

(* Nothing follows the frame a dialect ends with, and no text follows the   *)
(* output count, unless the count is restated with every frame.             *)
LEMMA Protocol ==
  ASSUME NEW d \in Dialects, NEW g \in Frames \cup {"none"}, NEW f \in Following(d, g)
  PROVE  /\ g # FinalFrame(d)
         /\ d = "openai" => g # "done"
         /\ d # "gemini" /\ f \in {"none", "start", "text"}
               => g \in {"none", "start", "text"}
BY DialectsKnown DEF Following, FinalFrame, Frames

LEMMA AccountInit == Init => AccountInv
BY DEF Init, AccountInv, Told, Kept, Nothing, Fresh, NoRecord

LEMMA AccountStep == TypeOK /\ AccountInv /\ [Next]_vars => AccountInv'
<1> SUFFICES ASSUME TypeOK, AccountInv, [Next]_vars PROVE AccountInv'
  OBVIOUS
<1> USE DEF Goto, call, upstream
<1>1. ASSUME NEW s \in Streams, NEW d \in Dialects, NEW p \in Policies,
             NEW w \in BOOLEAN, NEW flushed \in BOOLEAN, Open(s, d, p, w, flushed)
      PROVE  AccountInv'
  <2> DEFINE b == ~flushed
             x == [result[s] EXCEPT !.broke = b]
  <2>1. b \in BOOLEAN /\ result[s] \in PumpResult
    BY DEF TypeOK
  <2>2. result' = [result EXCEPT ![s] = x]
    BY <1>1 DEF Open
  <2> HIDE DEF b
  <2>3. x.sawDone = result[s].sawDone
    BY <2>1, FlagResult
  <2> HIDE DEF x
  <2>4. \A q \in Streams \ {s} : Untouched(q)
    BY <1>1, <2>2 DEF Open, TypeOK, Untouched
  <2>5. /\ pc[s] = "reserved" /\ pc'[s] \in {"check", "ended"} /\ result'[s] = x
        /\ last'[s] = "none" /\ heard'[s] = Nothing /\ record'[s] = record[s]
        /\ ~result[s].sawDone
    BY <1>1, <2>2 DEF Open, TypeOK, AccountInv, Told
  <2>6. Told(s)'
    BY <2>3, <2>5 DEF Told, Nothing
  <2>7. Kept(s)'
    BY <2>5 DEF Kept, AccountInv
  <2> QED
    BY <2>4, <2>6, <2>7, OthersUntouched
<1>2. ASSUME NEW s \in Streams, OpenFails(s) PROVE AccountInv'
  <2>1. \A q \in Streams \ {s} : Untouched(q)
    BY <1>2 DEF OpenFails, TypeOK, Untouched
  <2>2. Told(s)' /\ Kept(s)'
    BY <1>2 DEF OpenFails, TypeOK, AccountInv, Told, Kept, FinalFrame
  <2> QED
    BY <2>1, <2>2, OthersUntouched
<1>3. ASSUME NEW s \in Streams, NEW to \in {"stalled", "gone"}, ClientGoes(s, to)
      PROVE  AccountInv'
  BY <1>3 DEF ClientGoes, AccountInv, Told, Kept, Reported, ClosedCleanly, FinalFrame
<1>4. ASSUME NEW s \in Streams, NEW f \in Frames, NEW bad \in BOOLEAN, ReadFrame(s, f, bad)
      PROVE  AccountInv'
  <2>1. PICK k \in Knowledge, x \in PumpResult : Frame(s, f, bad, k, x)
    BY <1>4, FrameTurns
  <2>2. /\ pc[s] = "read" /\ pc'[s] \in {"write", "check", "ended"}
        /\ \A q \in Streams \ {s} : pc'[q] = pc[q]
    BY <1>4 DEF ReadFrame, Leave, TypeOK
  <2>3. \A q \in Streams \ {s} : Untouched(q)
    BY <2>1, <2>2 DEF Frame, TypeOK, Untouched
  <2>4. /\ heard'[s] = k /\ result'[s] = x /\ last'[s] = f
        /\ texts'[s] = IF f = "text" THEN texts[s] + 1 ELSE texts[s]
        /\ dialect'[s] = dialect[s] /\ record'[s] = record[s]
    BY <2>1 DEF Frame, TypeOK
  <2>5. /\ last[s] # FinalFrame(dialect[s])
        /\ dialect[s] = "openai" => last[s] # "done"
        /\ dialect[s] # "gemini" /\ f \in {"none", "start", "text"}
              => last[s] \in {"none", "start", "text"}
    BY <2>1, Protocol DEF Frame, TypeOK
  <2>6. Told(s)'
    <3>1. (k.stated >= 0 /\ ~k.unparsed) => k.stated = texts'[s]
      BY <2>1, <2>4, <2>5 DEF Frame, StatesUsage, AccountInv, Told
    <3>2. (dialect[s] # "gemini" /\ f \in {"none", "start", "text"}) => k.stated = -1
      BY <2>1, <2>5 DEF Frame, StatesUsage, AccountInv, Told
    <3>3. k.closed => f = FinalFrame(dialect[s])
      BY <2>1, <2>5 DEF Frame, AccountInv, Told
    <3>4. (dialect[s] = "openai" /\ x.sawDone) => f = "done"
      BY <2>1, <2>5 DEF Frame, AccountInv, Told
    <3> QED
      BY <2>2, <2>4, <3>1, <3>2, <3>3, <3>4 DEF Told, FinalFrame
  <2>7. Kept(s)'
    BY <2>2, <2>4 DEF Kept, AccountInv
  <2> QED
    BY <2>3, <2>6, <2>7, OthersUntouched
<1>5. ASSUME NEW s \in Streams, InLoop(s) PROVE AccountInv'
  <2>1. PICK label \in Running \cup {"ended"}, x \in PumpResult :
             /\ Turn(s, label, x)
             /\ x.sawDone => result[s].sawDone \/ dialect[s] # "openai"
    BY <1>5, LoopTurns
  <2>2. pc[s] \in Running /\ pc'[s] # "reserved"
    BY <1>5, <2>1, LoopTurns DEF Turn, TypeOK, Running
  <2>3. \A q \in Streams \ {s} : Untouched(q)
    BY <2>1 DEF Turn, TypeOK, Untouched
  <2>4. Told(s)'
    BY <2>1, <2>2 DEF Turn, TypeOK, Told, AccountInv, FinalFrame
  <2>5. Kept(s)'
    BY <2>1, <2>2 DEF Turn, Kept, AccountInv, Running
  <2> QED
    BY <2>3, <2>4, <2>5, OthersUntouched
<1>6. ASSUME NEW s \in Streams, Settle(s) PROVE AccountInv'
  <2>1. \A q \in Streams \ {s} : Untouched(q)
    BY <1>6 DEF Settle, TypeOK, Untouched
  <2>2. /\ pc'[s] = "settled" /\ record'[s].written
        /\ record'[s].source = UsageSource(s) /\ record'[s].error = ErrorCode(s)
        /\ record'[s].output = SettledOutput(s)
    BY <1>6 DEF Settle, TypeOK
  <2>3. Told(s)'
    BY <1>6, <2>2 DEF Settle, Told, AccountInv, FinalFrame
  <2>4. /\ (Reported(s)' <=> Reported(s)) /\ (ClosedCleanly(s)' <=> ClosedCleanly(s))
        /\ heard'[s] = heard[s]
    BY <1>6 DEF Settle, Reported, ClosedCleanly
  <2>5. /\ UsageSource(s) = "provider" => Reported(s)
        /\ Reported(s) => SettledOutput(s) = heard[s].stated
        /\ ErrorCode(s) = "none" => ClosedCleanly(s)
    BY DEF UsageSource, Reported, SettledOutput, ErrorCode
  <2>6. Kept(s)'
    BY <2>2, <2>4, <2>5 DEF Kept
  <2> QED
    BY <2>1, <2>3, <2>6, OthersUntouched
<1>7. CASE UNCHANGED vars
  BY <1>7 DEF AccountInv, Told, Kept, vars, Reported, ClosedCleanly, FinalFrame
<1> QED
  BY <1>1, <1>2, <1>3, <1>4, <1>5, <1>6, <1>7 DEF Next, PumpStep, InLoop

-------------------------------------------------------------------------------
(* The invariant of StreamPump: types, semaphore and accounts together, for *)
(* every interleaving of clients, providers and streams.                    *)
THEOREM PumpInvariance == Spec => [](TypeOK /\ SlotInv /\ AccountInv)
<1>1. Init => TypeOK /\ SlotInv /\ AccountInv
  <2>1. Init => SlotInv
    BY FS_EmptySet, MaxDrainsPositive DEF Init, SlotInv
  <2> QED
    BY <2>1, PumpTypeInit, AccountInit
<1>2. TypeOK /\ SlotInv /\ AccountInv /\ [Next]_vars => (TypeOK /\ SlotInv /\ AccountInv)'
  BY PumpTypeStep, SlotStep, AccountStep
<1> QED
  BY <1>1, <1>2, PTL DEF Spec

(* Type correctness of the pump: chunks and counts are natural numbers and  *)
(* no stream is anywhere but where pump.go can be.                          *)
THEOREM PumpTypeCorrectness == Spec => []TypeOK
BY PumpInvariance, PTL

(* The semaphore of pump.go: never more drains than slots, and whoever has  *)
(* left the loop has given its slot back.                                   *)
THEOREM SlotsReturned == Spec => []SlotsHeldByDrains
<1>1. TypeOK /\ SlotInv => SlotsHeldByDrains
  BY DEF SlotInv, SlotsHeldByDrains, Running
<1> QED
  BY <1>1, PumpInvariance, PTL

(* settleStream never passes an estimate off as a measurement. *)
THEOREM MeasurementsExact == Spec => []MeasurementIsExact
<1>1. AccountInv => MeasurementIsExact
  BY DEF AccountInv, Told, Kept, Reported, MeasurementIsExact
<1> QED
  BY <1>1, PumpInvariance, PTL

(* streamClosedCleanly accepts only what the provider finished. *)
THEOREM CleanStreamsComplete == Spec => []CleanMeansComplete
<1>1. TypeOK /\ AccountInv => CleanMeansComplete
  BY DEF AccountInv, Told, Kept, ClosedCleanly, FinalFrame, CleanMeansComplete
<1> QED
  BY <1>1, PumpInvariance, PTL

===============================================================================
