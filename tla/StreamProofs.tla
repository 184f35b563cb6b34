---------------------------- MODULE StreamProofs ----------------------------
(***************************************************************************)
(* The flow control of a stream, for any deliveries, windows and queues.   *)
(* Its variables keep their types (StreamType); the room the sender        *)
(* computed is still there when it adds what it pulled (WindowInv), as     *)
(* everyone else only takes from pending; and without nacks and seeks      *)
(* whatever is taken from pending is done (HeldInv).                       *)
(***************************************************************************)
EXTENDS MessageStreamer, FiniteSetTheorems, TLAPS

\* StreamTypeOK, in the parts that the groups of goroutines change.
SharedType ==
    /\ kind \in DOMAIN Load
    /\ db \in [D -> {"none", "due", "leased", "done"}]
    /\ canceled \in BOOLEAN /\ closed \in BOOLEAN /\ wakeSend \in BOOLEAN
    /\ notified \subseteq {"sender", "refresher"}
    /\ upsets \in 0 .. MaxUpsets
    /\ fc \in Nat \ {0} /\ pending \subseteq D
SenderType ==
    /\ sender \in {"loop", "wait", "pull", "add", "done"}
    /\ room \in Int /\ batch \subseteq D
ReaderType ==
    /\ reader \in {"receive", "txn", "delete", "done"}
    /\ ackIds \subseteq D /\ nackIds \subseteq D
    /\ opened \in BOOLEAN /\ window \in 1 .. MaxWindow
RefreshType ==
    /\ refresher \in {"wait", "remove", "done"} /\ gone \subseteq D
    /\ delayer \in {"wait", "extend", "done"} /\ delaying \subseteq D
ClientType ==
    held \subseteq D /\ fastAck \subseteq D /\ slowAck \subseteq D
    /\ nackQueue \subseteq D
StreamType ==
    SharedType /\ SenderType /\ ReaderType /\ RefreshType /\ ClientType

LEMMA StreamTypeParts == StreamType <=> StreamTypeOK
BY DEF StreamType, SharedType, SenderType, ReaderType, RefreshType, ClientType,
   StreamTypeOK

-----------------------------------------------------------------------------
(* Types *)

\* Max and Min of two numbers.
LEMMA MinMax ==
    ASSUME NEW a \in Int, NEW b \in Int
    PROVE  /\ Max({a, b}) \in {a, b} /\ Max({a, b}) >= a /\ Max({a, b}) >= b
           /\ Min({a, b}) \in {a, b} /\ Min({a, b}) <= a /\ Min({a, b}) <= b
<1>1. \E x \in {a, b} : \A y \in {a, b} : x >= y
  <2>1. CASE a >= b
    BY <2>1
  <2>2. CASE b >= a
    BY <2>2
  <2> QED BY <2>1, <2>2
<1>2. \E x \in {a, b} : \A y \in {a, b} : x <= y
  <2>1. CASE a >= b
    BY <2>1
  <2>2. CASE b >= a
    BY <2>2
  <2> QED BY <2>1, <2>2
<1> QED BY <1>1, <1>2 DEF Max, Min

\* The window of a push connection stays between one and its limit.
LEMMA WindowKept ==
    ASSUME NEW n \in Nat, window \in 1 .. MaxWindow
    PROVE  Shrunk(n) \in 1 .. MaxWindow /\ Grown(n) \in 1 .. MaxWindow
<1>1. MaxWindow \in Nat \ {0}
  BY StreamAssumption
<1>2. window \in Int /\ window >= 1 /\ window <= MaxWindow /\ n >= 0
  BY <1>1
<1>3. Shrunk(n) \in 1 .. MaxWindow
  <2>1. window - n \in Int /\ window - n <= MaxWindow
    BY <1>1, <1>2
  <2>2. ASSUME NEW b \in Int, b <= MaxWindow
        PROVE  Max({1, b}) \in 1 .. MaxWindow
    <3>1. Max({1, b}) \in {1, b} /\ Max({1, b}) >= 1
      BY MinMax
    <3> QED BY <1>1, <2>2, <3>1
  <2> QED BY <2>1, <2>2, Zenon DEF Shrunk
<1>4. Grown(n) \in 1 .. MaxWindow
  <2>1. window + n \in Int /\ 1 <= window + n
    BY <1>1, <1>2
  <2>2. ASSUME NEW b \in Int, 1 <= b
        PROVE  Min({MaxWindow, b}) \in 1 .. MaxWindow
    <3>1. Min({MaxWindow, b}) \in {MaxWindow, b} /\ Min({MaxWindow, b}) <= MaxWindow
      BY <1>1, MinMax
    <3> QED BY <1>1, <2>2, <3>1
  <2> QED BY <2>1, <2>2, Zenon DEF Grown
<1> QED BY <1>3, <1>4

\* Sets of deliveries are finite.
LEMMA FiniteD ==
    ASSUME NEW S \in SUBSET D
    PROVE  IsFiniteSet(S) /\ Cardinality(S) \in Nat
<1>1. IsFiniteSet(D)
  BY StreamAssumption
<1>2. IsFiniteSet(S)
  BY <1>1, FS_Subset
<1> QED BY <1>2, FS_CardinalityType

LEMMA SenderTypeStep ==
    ASSUME StreamType, Sender
    PROVE  StreamType'
<1> USE DEF StreamType
<1>1. SenderType'
  <2>1. Cardinality(pending) \in Nat
    BY FiniteD DEF SharedType
  <2>2. fc - Cardinality(pending) \in Int
    BY <2>1 DEF SharedType
  <2>3. CASE Compute
    BY <2>2, <2>3 DEF Compute, Room, SenderType
  <2>4. CASE Wake \/ Pull \/ PullEmpty \/ AddAndSend \/ SenderEnds
    BY <2>4 DEF Wake, Pull, PullEmpty, AddAndSend, SenderEnds, SenderType
  <2> QED BY <2>3, <2>4 DEF Sender
<1>2. UNCHANGED <<readerVars, refreshVars, boundVars, fastAck, slowAck, nackQueue>>
  BY Zenon DEF Sender, Compute, Wake, Pull, PullEmpty, AddAndSend, SenderEnds,
     clientVars
<1>3. SharedType'
  BY <1>2 DEF Sender, Compute, Wake, Pull, PullEmpty, AddAndSend, SenderEnds,
     SharedType, SenderType, dbVars, boundVars, DbSet
<1>4. ClientType'
  BY <1>2 DEF Sender, Compute, Wake, Pull, PullEmpty, AddAndSend, SenderEnds,
     SenderType, ClientType, clientVars
<1>5. ReaderType' /\ RefreshType'
  BY <1>2 DEF ReaderType, RefreshType, readerVars, refreshVars
<1> QED BY <1>1, <1>3, <1>4, <1>5

LEMMA ReaderTypeStep ==
    ASSUME StreamType, Reader
    PROVE  StreamType'
<1> USE DEF StreamType
<1>1. UNCHANGED <<senderVars, refreshVars, held, kind, upsets, canceled, closed>>
  BY Zenon DEF Reader, ReceiveFirst, ReceiveGrpc, ReceivePush, DoAcksNacks,
     DeleteAnswered, ReaderEnds, clientVars, boundVars
<1>2. SenderType' /\ RefreshType'
  BY <1>1 DEF SenderType, RefreshType, senderVars, refreshVars
<1>3. ClientType'
  BY <1>1 DEF Reader, ReceiveFirst, ReceiveGrpc, ReceivePush, DoAcksNacks,
     DeleteAnswered, ReaderEnds, clientVars, ClientType
<1>4. CASE ReceivePush
  <2>1. ASSUME NEW S \in SUBSET D
        PROVE  /\ Cardinality(S) \in Nat /\ NackPenalty * Cardinality(S) \in Nat
               /\ Grown(Cardinality(S)) \in 1 .. MaxWindow
               /\ Shrunk(Cardinality(S)) \in 1 .. MaxWindow
               /\ Shrunk(NackPenalty * Cardinality(S)) \in 1 .. MaxWindow
    <3>1. Cardinality(S) \in Nat /\ NackPenalty \in Nat
      BY FiniteD, StreamAssumption
    <3>2. \A a, b \in Nat : a * b \in Nat
      OBVIOUS
    <3>3. NackPenalty * Cardinality(S) \in Nat
      BY <3>1, <3>2
    <3> QED BY <3>1, <3>3, WindowKept DEF ReaderType
  <2>2. window' \in 1 .. MaxWindow
    BY <1>4, <2>1 DEF ReceivePush, ReaderType, ClientType
  <2>3. ReaderType'
    BY <1>4, <2>2 DEF ReceivePush, ReaderType, ClientType
  <2>4. fc' \in {fc, window'}
    BY <1>4 DEF ReceivePush, SetFc
  <2>5. \A n \in 1 .. MaxWindow : n \in Nat \ {0}
    BY StreamAssumption
  <2>6. fc' \in Nat \ {0}
    BY <2>2, <2>4, <2>5 DEF SharedType
  <2>7. wakeSend' \in BOOLEAN
    BY <1>4 DEF ReceivePush, SetFc, SharedType
  <2>8. UNCHANGED <<dbVars, pending>>
    BY <1>4 DEF ReceivePush
  <2>9. SharedType'
    BY <1>1, <2>6, <2>7, <2>8 DEF SharedType, dbVars
  <2> QED BY <1>2, <1>3, <2>3, <2>9
<1>5. CASE ReceiveFirst \/ ReceiveGrpc \/ DoAcksNacks \/ DeleteAnswered \/ ReaderEnds
  <2>1. ReaderType'
    BY <1>5 DEF ReceiveFirst, ReceiveGrpc, DoAcksNacks, DeleteAnswered,
       ReaderEnds, ReaderType, ClientType
  <2>2. fc' \in Nat \ {0}
    <3>1. kind # "push" => Window[kind] \in Nat \ {0}
      BY StreamAssumption DEF SharedType
    <3> QED BY <1>5, <3>1 DEF ReceiveFirst, ReceiveGrpc, DoAcksNacks,
            DeleteAnswered, ReaderEnds, SetFc, SharedType
  <2>3. wakeSend' \in BOOLEAN
    BY <1>5 DEF ReceiveFirst, ReceiveGrpc, DoAcksNacks, DeleteAnswered,
       ReaderEnds, SetFc, SharedType
  <2>4. /\ db' \in [D -> {"none", "due", "leased", "done"}]
        /\ notified' \subseteq {"sender", "refresher"} /\ pending' \subseteq D
    BY <1>5 DEF ReceiveFirst, ReceiveGrpc, DoAcksNacks, DeleteAnswered,
       ReaderEnds, NotifyIf, Notify, SharedType, dbVars
  <2>5. SharedType'
    BY <1>1, <2>2, <2>3, <2>4 DEF SharedType
  <2> QED BY <1>2, <1>3, <2>1, <2>5
<1> QED BY <1>4, <1>5 DEF Reader

LEMMA RefreshTypeStep ==
    ASSUME StreamType, Refresher \/ PickDelays \/ Delayer \/ Close \/ Cancel
    PROVE  StreamType'
<1> USE DEF StreamType
<1>1. UNCHANGED <<senderVars, readerVars, clientVars, boundVars, fc>>
  BY Zenon DEF Refresher, QueryPending, RemoveCompleted, RefresherEnds,
     PickDelays, Delayer, AutoDelay, DelayerEnds, Close, Cancel
<1>2. SenderType' /\ ReaderType' /\ ClientType'
  BY <1>1 DEF SenderType, ReaderType, ClientType, senderVars, readerVars,
     clientVars
<1>3. RefreshType'
  BY DEF Refresher, QueryPending, RemoveCompleted, RefresherEnds, PickDelays,
     Delayer, AutoDelay, DelayerEnds, Close, Cancel, Completed, SharedType,
     RefreshType, refreshVars
<1>4. canceled' \in BOOLEAN /\ closed' \in BOOLEAN /\ wakeSend' \in BOOLEAN
  BY DEF Refresher, QueryPending, RemoveCompleted, RefresherEnds, PickDelays,
     Delayer, AutoDelay, DelayerEnds, Close, Cancel, SharedType
<1>5. /\ db' \in [D -> {"none", "due", "leased", "done"}]
      /\ notified' \subseteq {"sender", "refresher"} /\ pending' \subseteq D
  BY DEF Refresher, QueryPending, RemoveCompleted, RefresherEnds, PickDelays,
     Delayer, AutoDelay, DelayerEnds, Close, Cancel, SharedType, dbVars
<1>6. SharedType'
  BY <1>1, <1>4, <1>5 DEF SharedType, boundVars
<1> QED BY <1>2, <1>3, <1>6

\* The steps of the clients and of the rest of the world.
Outside(d) == \/ DoDelay(d) \/ AnswerOf(d) \/ AbandonPush(d)
              \/ PublishOne(d) \/ Lapse(d) \/ SeekOne(d)

LEMMA OutsideTypeStep ==
    ASSUME StreamType, NEW d \in D, Outside(d)
    PROVE  StreamType'
<1> USE DEF StreamType
<1>1. UNCHANGED <<senderVars, readerVars, refreshVars, kind, fc, canceled,
                  closed, pending, wakeSend>>
  BY Zenon DEF Outside, DoDelay, AnswerOf, AnswerGrpc, AnswerPush,
     AnswerStandalone, AbandonPush, PublishOne, Lapse, SeekOne, boundVars
<1>2. SenderType' /\ ReaderType' /\ RefreshType'
  BY <1>1 DEF SenderType, ReaderType, RefreshType, senderVars, readerVars,
     refreshVars
<1>3. ClientType'
  BY DEF Outside, DoDelay, AnswerOf, AnswerGrpc, AnswerPush, AnswerStandalone,
     AbandonPush, PublishOne, Lapse, SeekOne, ClientType, clientVars
<1>4. upsets' = upsets \/ (upsets < MaxUpsets /\ upsets' = upsets + 1)
  BY Zenon DEF Outside, DoDelay, AnswerOf, AnswerGrpc, AnswerPush,
     AnswerStandalone, AbandonPush, PublishOne, Lapse, SeekOne, boundVars
<1>5. upsets' \in 0 .. MaxUpsets
  BY <1>4, StreamAssumption DEF SharedType
<1>6. /\ db' \in [D -> {"none", "due", "leased", "done"}]
      /\ notified' \subseteq {"sender", "refresher"}
  BY DEF Outside, DoDelay, AnswerOf, AnswerGrpc, AnswerPush, AnswerStandalone,
     AbandonPush, PublishOne, Lapse, SeekOne, DbSet, Notify, NotifyIf,
     SharedType, dbVars
<1>7. SharedType'
  BY <1>1, <1>5, <1>6 DEF SharedType
<1> QED BY <1>2, <1>3, <1>7

LEMMA StreamSteps ==
    ASSUME [StreamNext]_streamVars
    PROVE  \/ Sender \/ Reader
           \/ Refresher \/ PickDelays \/ Delayer \/ Close \/ Cancel
           \/ \E d \in D : Outside(d)
           \/ UNCHANGED streamVars
BY DEF StreamNext, Outside

LEMMA StreamTypeStep ==
    ASSUME StreamType, [StreamNext]_streamVars
    PROVE  StreamType'
<1>1. CASE UNCHANGED streamVars
  BY <1>1 DEF StreamType, SharedType, SenderType, ReaderType, RefreshType,
     ClientType, streamVars, dbVars, senderVars, readerVars, refreshVars,
     clientVars, boundVars
<1> QED BY <1>1, StreamSteps, SenderTypeStep, ReaderTypeStep, RefreshTypeStep,
        OutsideTypeStep

LEMMA StreamTypeInit == StreamInit => StreamType
<1> SUFFICES ASSUME StreamInit PROVE StreamType
  OBVIOUS
<1>1. 0 \in 0 .. MaxUpsets /\ 1 \in 1 .. MaxWindow
  BY StreamAssumption
<1>2. db \in [D -> {"none", "due", "leased", "done"}]
  BY DEF StreamInit
<1>3. canceled = FALSE /\ closed = FALSE /\ wakeSend = FALSE /\ opened = FALSE
  BY DEF StreamInit
<1>4. SharedType /\ ReaderType
  <2>1. /\ canceled \in BOOLEAN /\ closed \in BOOLEAN /\ wakeSend \in BOOLEAN
        /\ opened \in BOOLEAN
    BY <1>3
  <2>2. /\ kind \in DOMAIN Load /\ notified = {} /\ upsets = 0 /\ fc = 1
        /\ pending = {} /\ reader = "receive" /\ ackIds = {} /\ nackIds = {}
        /\ window = 1
    BY DEF StreamInit
  <2>3. upsets \in 0 .. MaxUpsets /\ fc \in Nat \ {0} /\ window \in 1 .. MaxWindow
    BY <1>1, <2>2
  <2>4. SharedType
    BY <1>2, <2>1, <2>2, <2>3 DEF SharedType
  <2>5. ReaderType
    BY <2>1, <2>2, <2>3 DEF ReaderType
  <2> QED BY <2>4, <2>5
<1>5. SenderType /\ RefreshType /\ ClientType
  BY DEF StreamInit, SenderType, RefreshType, ClientType
<1> QED BY <1>4, <1>5 DEF StreamType

LEMMA StreamTypeAlways == StreamSpec => []StreamType
BY StreamTypeInit, StreamTypeStep, PTL DEF StreamSpec

\* The variables of the stream keep their types; above all, the window of a
\* push connection stays between one and its limit, whatever sizes the batches
\* of fast, slow and failed answers have.
THEOREM StreamTypeCorrect == StreamSpec => []StreamTypeOK
BY StreamTypeAlways, StreamTypeParts, PTL

-----------------------------------------------------------------------------
(* Flow control *)

\* What everyone but the sender does to pending is to take from it.
PendingShrinks == pending' \subseteq pending /\ UNCHANGED <<senderVars, kind>>

\* The room that the sender computed is still there.
WindowInv ==
    /\ fc <= Largest
    /\ sender = "pull" => room \in Nat /\ Cardinality(pending) + room <= Largest
    /\ sender # "add" => batch = {}
    /\ WithinWindow

LEMMA LargestType ==
    ASSUME kind \in DOMAIN Load
    PROVE  Largest \in Nat \ {0}
BY StreamAssumption DEF Largest

LEMMA WindowShrinks ==
    ASSUME StreamType, WindowInv, PendingShrinks, fc' <= Largest
    PROVE  WindowInv'
<1>1. /\ pending \subseteq D /\ batch \subseteq D /\ kind \in DOMAIN Load
      /\ pending' \subseteq pending
      /\ batch' = batch /\ room' = room /\ sender' = sender /\ kind' = kind
  BY DEF StreamType, SharedType, SenderType, PendingShrinks, senderVars
<1>2. Largest' = Largest /\ Largest \in Nat
  BY <1>1, LargestType DEF Largest
<1>3. /\ Cardinality(pending') \in Nat /\ Cardinality(pending) \in Nat
      /\ Cardinality(pending') <= Cardinality(pending)
  BY <1>1, FiniteD, FS_Subset
<1>4. /\ Cardinality(pending' \cup batch) \in Nat
      /\ Cardinality(pending \cup batch) \in Nat
      /\ Cardinality(pending' \cup batch) <= Cardinality(pending \cup batch)
  <2>1. pending \cup batch \in SUBSET D /\ pending' \cup batch \in SUBSET D
    BY <1>1
  <2>2. pending' \cup batch \subseteq pending \cup batch
    BY <1>1
  <2> QED BY <2>1, <2>2, FiniteD, FS_Subset
<1>5. WithinWindow'
  BY <1>1, <1>2, <1>4 DEF WindowInv, WithinWindow
<1>6. sender = "pull" => Cardinality(pending') + room <= Largest
  BY <1>2, <1>3 DEF WindowInv
<1> QED BY <1>1, <1>2, <1>5, <1>6 DEF WindowInv

LEMMA WindowSender ==
    ASSUME StreamType, WindowInv, Sender
    PROVE  WindowInv'
<1>0. /\ pending \subseteq D /\ batch \subseteq D /\ kind \in DOMAIN Load
      /\ fc \in Nat
  BY DEF StreamType, SharedType, SenderType
<1>1. fc' = fc /\ kind' = kind
  BY Zenon DEF Sender, Compute, Wake, Pull, PullEmpty, AddAndSend, SenderEnds,
     boundVars
<1>2. Largest' = Largest /\ Largest \in Nat \ {0}
  BY <1>0, <1>1, LargestType DEF Largest
<1>3. Cardinality(pending) \in Nat
  BY <1>0, FiniteD
<1>4. CASE Compute
  <2>1. /\ pending' = pending /\ batch' = batch /\ sender = "loop"
        /\ room' = (IF Room > 0 THEN Room ELSE 0)
        /\ sender' = (IF Room > 0 THEN "pull" ELSE "wait")
    BY <1>4 DEF Compute
  <2>2. Room \in Int /\ Cardinality(pending) + Room = fc
    BY <1>0, <1>3 DEF Room
  <2>3. sender' = "pull" => room' \in Nat /\ room' = Room
    BY <2>1, <2>2
  <2>4. sender' = "pull" => room' \in Nat /\ Cardinality(pending') + room' <= Largest
    BY <2>1, <2>2, <2>3 DEF WindowInv
  <2> QED BY <1>1, <1>2, <2>1, <2>4 DEF WindowInv, WithinWindow
<1>5. CASE Wake \/ PullEmpty \/ SenderEnds
  <2>1. /\ pending' = pending /\ batch' = {} /\ sender' # "pull"
    BY <1>5 DEF Wake, PullEmpty, SenderEnds, WindowInv
  <2>2. Cardinality(pending' \cup batch') <= Largest
    <3>1. CASE batch = {}
      BY <2>1, <3>1 DEF WindowInv, WithinWindow
    <3>2. pending \subseteq pending \cup batch /\ pending \cup batch \in SUBSET D
      BY <1>0
    <3>3. /\ Cardinality(pending) <= Cardinality(pending \cup batch)
          /\ Cardinality(pending \cup batch) \in Nat
      BY <3>2, FiniteD, FS_Subset
    <3>4. Cardinality(pending) <= Largest
      BY <1>2, <1>3, <3>3 DEF WindowInv, WithinWindow
    <3>5. pending' \cup batch' = pending
      BY <2>1
    <3> QED BY <3>4, <3>5
  <2> QED BY <1>1, <1>2, <2>1, <2>2 DEF WindowInv, WithinWindow
<1>6. CASE Pull
  <2>1. PICK S \in SUBSET D :
           Cardinality(S) <= Min({room, MaxPull}) /\ batch' = S
    BY <1>6 DEF Pull
  <2>2. sender = "pull" /\ sender' = "add" /\ pending' = pending
    BY <1>6 DEF Pull
  <2>3. room \in Nat /\ MaxPull \in Nat
    BY <2>2, StreamAssumption DEF WindowInv
  <2>4. Min({room, MaxPull}) \in Nat /\ Min({room, MaxPull}) <= room
    <3>1. ASSUME NEW a \in Nat, NEW b \in Nat
          PROVE  Min({a, b}) \in Nat /\ Min({a, b}) <= a
      <4>1. Min({a, b}) \in {a, b} /\ Min({a, b}) <= a
        BY MinMax
      <4> QED BY <4>1
    <3> QED BY <2>3, <3>1, Zenon
  <2>5. /\ IsFiniteSet(pending) /\ IsFiniteSet(S)
        /\ Cardinality(S) \in Nat /\ Cardinality(pending \cap S) \in Nat
    <3>1. pending \cap S \in SUBSET D
      OBVIOUS
    <3> QED BY <1>0, <3>1, FiniteD
  <2>6. Cardinality(pending \cup S) =
           Cardinality(pending) + Cardinality(S) - Cardinality(pending \cap S)
    BY <2>5, FS_Union
  <2>7. room \in Nat /\ Cardinality(pending) + room <= Largest
    BY <2>2 DEF WindowInv
  <2>8. Cardinality(pending \cup S) <= Largest
    BY <1>2, <1>3, <2>1, <2>5, <2>6, <2>7, <2>4
  <2> QED BY <1>1, <1>2, <2>1, <2>2, <2>8 DEF WindowInv, WithinWindow
<1>7. CASE AddAndSend
  <2>1. /\ pending' = pending \cup batch /\ batch' = {} /\ sender' = "loop"
    BY <1>7 DEF AddAndSend
  <2>2. pending' \cup batch' = pending \cup batch
    BY <2>1
  <2> QED BY <1>1, <1>2, <2>1, <2>2 DEF WindowInv, WithinWindow
<1> QED BY <1>4, <1>5, <1>6, <1>7 DEF Sender

LEMMA WindowReader ==
    ASSUME StreamType, WindowInv, Reader
    PROVE  WindowInv'
<1>1. PendingShrinks
  BY DEF Reader, ReceiveFirst, ReceiveGrpc, ReceivePush, DoAcksNacks,
     DeleteAnswered, ReaderEnds, PendingShrinks, boundVars
<1>2. fc' <= Largest
  <2>1. CASE ReceivePush
    <3>1. StreamType'
      BY ReaderTypeStep
    <3>2. fc' \in {fc, window'}
      BY <2>1 DEF ReceivePush, SetFc
    <3>3. Largest = MaxWindow
      BY <2>1 DEF ReceivePush, Largest
    <3>4. \A n \in 1 .. MaxWindow : n <= MaxWindow
      BY StreamAssumption
    <3> QED BY <3>1, <3>2, <3>3, <3>4 DEF WindowInv, StreamType, ReaderType
  <2>2. CASE ReceiveFirst
    <3>1. fc' = Largest /\ Largest \in Nat
      BY <2>2, LargestType DEF ReceiveFirst, SetFc, Largest, StreamType, SharedType
    <3> QED BY <3>1
  <2>3. CASE ReceiveGrpc \/ DoAcksNacks \/ DeleteAnswered \/ ReaderEnds
    BY <2>3 DEF ReceiveGrpc, DoAcksNacks, DeleteAnswered, ReaderEnds, WindowInv
  <2> QED BY <2>1, <2>2, <2>3 DEF Reader
<1> QED BY <1>1, <1>2, WindowShrinks

LEMMA WindowStep ==
    ASSUME StreamType, WindowInv, [StreamNext]_streamVars
    PROVE  WindowInv'
<1>1. CASE Sender \/ Reader
  BY <1>1, WindowSender, WindowReader
<1>2. CASE \/ Refresher \/ PickDelays \/ Delayer \/ Close \/ Cancel
           \/ \E d \in D : Outside(d)
           \/ UNCHANGED streamVars
  <2>1. fc' = fc /\ UNCHANGED <<senderVars, kind>>
    BY <1>2, Zenon DEF Refresher, QueryPending, RemoveCompleted, RefresherEnds,
       PickDelays, Delayer, AutoDelay, DelayerEnds, Close, Cancel, Outside,
       DoDelay, AnswerOf, AnswerGrpc, AnswerPush, AnswerStandalone, AbandonPush,
       PublishOne, Lapse, SeekOne, boundVars, streamVars
  <2>2. CASE RemoveCompleted
    <3>1. pending' \subseteq pending
      BY <2>2 DEF RemoveCompleted
    <3> QED BY <2>1, <3>1, WindowShrinks DEF PendingShrinks, WindowInv
  <2>3. CASE ~RemoveCompleted
    <3>1. UNCHANGED pending
      BY <1>2, <2>3, Zenon DEF Refresher, QueryPending, RefresherEnds,
         PickDelays, Delayer, AutoDelay, DelayerEnds, Close, Cancel, Outside,
         DoDelay, AnswerOf, AnswerGrpc, AnswerPush, AnswerStandalone,
         AbandonPush, PublishOne, Lapse, SeekOne, boundVars, streamVars
    <3> QED BY <2>1, <3>1, WindowShrinks DEF PendingShrinks, WindowInv
  <2> QED BY <2>2, <2>3
<1> QED BY <1>1, <1>2, StreamSteps

LEMMA WindowInit == StreamInit => WindowInv
<1> SUFFICES ASSUME StreamInit PROVE WindowInv
  OBVIOUS
<1>1. Largest \in Nat \ {0}
  BY LargestType DEF StreamInit
<1>2. /\ fc = 1 /\ pending = {} /\ batch = {} /\ sender = "loop"
  BY DEF StreamInit
<1>3. Cardinality({}) = 0 /\ pending \cup batch = {}
  BY <1>2, FS_EmptySet
<1>4. WithinWindow
  BY <1>1, <1>3 DEF WithinWindow
<1> QED BY <1>1, <1>2, <1>4 DEF WindowInv

\* A stream never has more deliveries outstanding than the largest flow control
\* it was given, however windows grow and shrink and acknowledgements, the
\* refresher and redeliveries change pending while the sender pulls.
THEOREM NeverOverWindow == StreamSpec => []WithinWindow
<1>1. StreamType /\ WindowInv /\ [StreamNext]_streamVars => WindowInv'
  BY WindowStep
<1>2. WindowInv => WithinWindow
  BY DEF WindowInv
<1> QED BY <1>1, <1>2, WindowInit, StreamTypeAlways, PTL DEF StreamSpec

-----------------------------------------------------------------------------
(* What the client holds *)

\* The deliveries that exist.
Published == {d \in D : db[d] # "none"}

\* The deliveries a stream has to do with were published.
Known ==
    /\ pending \subseteq Published /\ batch \subseteq Published
    /\ ackIds \subseteq Published /\ gone \subseteq Published
    /\ held \subseteq Published /\ fastAck \subseteq Published
    /\ slowAck \subseteq Published

\* Without nacks and seeks whatever is about to be taken from pending is done.
Settled ==
    upsets = 0 =>
      /\ nackQueue = {} /\ nackIds = {}
      /\ \A d \in gone : db[d] = "done"
      /\ reader = "delete" => \A d \in ackIds : db[d] = "done"

HeldInv == Known /\ Settled /\ HeldIsPending

\* What is published stays so, and what is done is reopened by nacks and seeks
\* only.
DbForward ==
    /\ \A d \in D : db[d] # "none" => db'[d] # "none"
    /\ upsets' = 0 => /\ upsets = 0
                      /\ \A d \in D : db[d] = "done" => db'[d] = "done"

LEMMA DbStep ==
    ASSUME StreamType, [StreamNext]_streamVars
    PROVE  DbForward
<1> USE DEF DbForward
<1>0. /\ db \in [D -> {"none", "due", "leased", "done"}]
      /\ upsets \in Nat
  BY StreamAssumption DEF StreamType, SharedType
<1>1. CASE UNCHANGED <<db, upsets>>
  BY <1>1
<1>2. CASE Pull
  <2>1. PICK S \in SUBSET {d \in D : db[d] = "due"} : DbSet(S, "leased")
    BY <1>2 DEF Pull
  <2>2. upsets' = upsets
    BY <1>2 DEF Pull, boundVars
  <2> QED BY <1>0, <2>1, <2>2 DEF DbSet
<1>3. CASE DoAcksNacks \/ AutoDelay
  <2>1. upsets' = upsets
    BY <1>3 DEF DoAcksNacks, AutoDelay, boundVars
  <2> QED BY <1>0, <1>3, <2>1 DEF DoAcksNacks, AutoDelay, OpenOf, Open
<1>4. ASSUME NEW d \in D, Outside(d)
      PROVE  DbForward
  <2>1. CASE AnswerGrpc(d) \/ AbandonPush(d)
    BY <1>1, <2>1 DEF AnswerGrpc, AbandonPush, dbVars, boundVars
  <2>2. CASE AnswerPush(d)
    <3>1. db' = db /\ (upsets' = upsets \/ upsets' = upsets + 1)
      BY <2>2 DEF AnswerPush, dbVars
    <3> QED BY <1>0, <3>1
  <2>3. CASE DoDelay(d) \/ PublishOne(d) \/ Lapse(d)
    <3>1. upsets' = upsets
      BY <2>3 DEF DoDelay, PublishOne, Lapse, boundVars
    <3> QED BY <1>0, <2>3, <3>1 DEF DoDelay, PublishOne, Lapse, DbSet
  <2>4. CASE AnswerStandalone(d)
    <3>1. \/ DbSet(OpenOf({d}), "done") /\ upsets' = upsets
          \/ DbSet(OpenOf({d}), "due") /\ upsets' = upsets + 1
      BY <2>4 DEF AnswerStandalone
    <3> QED BY <1>0, <3>1 DEF DbSet
  <2>5. CASE SeekOne(d)
    <3>1. /\ DbSet({d}, IF Open(d) THEN "done" ELSE "due")
          /\ upsets' = upsets + 1
      BY <2>5 DEF SeekOne
    <3> QED BY <1>0, <3>1 DEF DbSet
  <2> QED BY <1>4, <2>1, <2>2, <2>3, <2>4, <2>5 DEF Outside, AnswerOf
<1>5. CASE \/ Compute \/ Wake \/ PullEmpty \/ AddAndSend \/ SenderEnds
           \/ ReceiveFirst \/ ReceiveGrpc \/ ReceivePush \/ DeleteAnswered
           \/ ReaderEnds \/ Refresher \/ PickDelays \/ DelayerEnds \/ Close
           \/ Cancel \/ UNCHANGED streamVars
  <2>1. UNCHANGED <<db, upsets>>
    BY <1>5, Zenon DEF Compute, Wake, PullEmpty, AddAndSend, SenderEnds,
       ReceiveFirst, ReceiveGrpc, ReceivePush, DeleteAnswered, ReaderEnds,
       Refresher, QueryPending, RemoveCompleted, RefresherEnds, PickDelays,
       DelayerEnds, Close, Cancel, streamVars, dbVars, boundVars
  <2> QED BY <1>1, <2>1
<1> QED BY <1>2, <1>3, <1>4, <1>5, StreamSteps DEF Sender, Reader, Delayer

\* Steps that leave the sets as they are.
LEMMA HeldUnchanged ==
    ASSUME StreamType, HeldInv, DbForward,
           UNCHANGED <<pending, batch, ackIds, nackIds, gone, reader, nackQueue>>,
           held' \subseteq held,
           fastAck' \subseteq fastAck \cup held,
           slowAck' \subseteq slowAck \cup held
    PROVE  HeldInv'
<1>1. /\ pending \subseteq D /\ batch \subseteq D /\ ackIds \subseteq D
      /\ gone \subseteq D /\ held \subseteq D /\ fastAck \subseteq D
      /\ slowAck \subseteq D /\ db \in [D -> {"none", "due", "leased", "done"}]
  BY DEF StreamType, SharedType, SenderType, ReaderType, RefreshType, ClientType
<1>2. Known'
  BY <1>1 DEF HeldInv, Known, DbForward, Published
<1>3. Settled'
  BY <1>1 DEF HeldInv, Settled, DbForward
<1>4. ASSUME upsets' = 0, NEW d \in held', Open(d)'
      PROVE  d \in pending'
  <2>1. upsets = 0 /\ d \in D /\ db[d] # "done" /\ db[d] # "none"
    BY <1>1, <1>4 DEF HeldInv, Known, DbForward, Open, Published
  <2>2. Open(d)
    BY <1>1, <2>1 DEF Open
  <2> QED BY <2>1, <2>2 DEF HeldInv, HeldIsPending, OpenOf
<1> QED BY <1>2, <1>3, <1>4 DEF HeldInv, HeldIsPending, OpenOf

\* Steps that add to the sets only what is known, and take from pending only
\* what is done.
LEMMA HeldGeneral ==
    ASSUME StreamType, HeldInv, DbForward, Settled',
           pending' \subseteq Published, batch' \subseteq Published,
           ackIds' \subseteq Published, gone' \subseteq Published,
           held' \subseteq Published, fastAck' \subseteq Published,
           slowAck' \subseteq Published,
           held' \subseteq held \cup pending',
           upsets = 0 => \A d \in pending \ pending' : db[d] = "done"
    PROVE  HeldInv'
<1>1. db \in [D -> {"none", "due", "leased", "done"}]
  BY DEF StreamType, SharedType
<1>2. Known'
  BY DEF Known, DbForward, Published
<1>3. ASSUME upsets' = 0, NEW d \in held', Open(d)'
      PROVE  d \in pending'
  <2>1. upsets = 0 /\ d \in D /\ db[d] # "done" /\ db[d] # "none"
    BY <1>3 DEF DbForward, Open, Known, Published
  <2>2. Open(d)
    BY <1>1, <2>1 DEF Open
  <2>3. d \in held => d \in pending
    BY <2>1, <2>2 DEF HeldInv, HeldIsPending, OpenOf
  <2> QED BY <2>1, <2>3
<1> QED BY <1>2, <1>3 DEF HeldInv, HeldIsPending, OpenOf

LEMMA HeldSender ==
    ASSUME StreamType, HeldInv, DbForward, Sender
    PROVE  HeldInv'
<1>1. Known
  BY DEF HeldInv
<1>2. UNCHANGED <<reader, ackIds, nackIds, gone, fastAck, slowAck, nackQueue, upsets>>
  BY Zenon DEF Sender, Compute, Wake, Pull, PullEmpty, AddAndSend, SenderEnds,
     readerVars, refreshVars, clientVars, boundVars
<1>3. Settled'
  BY <1>2 DEF HeldInv, Settled, DbForward, StreamType, ReaderType, RefreshType
<1>4. /\ batch' \subseteq Published /\ pending' \subseteq Published
      /\ held' \subseteq Published
      /\ held' \subseteq held \cup pending' /\ pending \subseteq pending'
  <2>1. CASE AddAndSend
    BY <1>1, <2>1 DEF AddAndSend, Known
  <2>2. CASE Pull
    <3>1. batch' \subseteq {d \in D : db[d] = "due"} /\ UNCHANGED <<pending, held>>
      BY <2>2 DEF Pull, clientVars
    <3> QED BY <1>1, <3>1 DEF Known, Published
  <2>3. CASE Compute \/ Wake \/ PullEmpty \/ SenderEnds
    <3>1. (batch' = batch \/ batch' = {}) /\ UNCHANGED <<pending, held>>
      BY <2>3 DEF Compute, Wake, PullEmpty, SenderEnds, clientVars
    <3> QED BY <1>1, <3>1 DEF Known
  <2> QED BY <2>1, <2>2, <2>3 DEF Sender
<1> QED BY <1>1, <1>2, <1>3, <1>4, HeldGeneral DEF Known

LEMMA HeldReader ==
    ASSUME StreamType, HeldInv, DbForward, Reader
    PROVE  HeldInv'
<1>1. Known
  BY DEF HeldInv
<1>2. UNCHANGED <<batch, gone, held, upsets>>
  BY Zenon DEF Reader, ReceiveFirst, ReceiveGrpc, ReceivePush, DoAcksNacks,
     DeleteAnswered, ReaderEnds, senderVars, refreshVars, clientVars, boundVars
<1>3. /\ ackIds' \in {ackIds, fastAck, slowAck, {}}
      /\ fastAck' \in {fastAck, {}} /\ slowAck' \in {slowAck, {}}
      /\ nackQueue' \in {nackQueue, {}} /\ nackIds' \in {nackIds, nackQueue, {}}
  BY DEF Reader, ReceiveFirst, ReceiveGrpc, ReceivePush, DoAcksNacks,
     DeleteAnswered, ReaderEnds, readerVars, clientVars
<1>4. /\ pending' \subseteq pending
      /\ upsets = 0 => \A d \in pending \ pending' : db[d] = "done"
  <2>1. CASE DeleteAnswered
    BY <2>1 DEF DeleteAnswered, HeldInv, Settled
  <2>2. CASE ~DeleteAnswered
    <3>1. UNCHANGED pending
      BY <2>2, Zenon DEF Reader, ReceiveFirst, ReceiveGrpc, ReceivePush,
         DoAcksNacks, ReaderEnds
    <3> QED BY <3>1
  <2> QED BY <2>1, <2>2
<1>5. ASSUME upsets' = 0, reader' = "delete"
      PROVE  \A d \in ackIds' : db'[d] = "done"
  <2>1. DoAcksNacks
    BY <1>5, Zenon DEF Reader, ReceiveFirst, ReceiveGrpc, ReceivePush,
       DeleteAnswered, ReaderEnds
  <2>2. /\ ackIds' = ackIds
        /\ \A d \in D \ nackIds :
              db'[d] = IF d \in OpenOf(ackIds) THEN "done" ELSE db[d]
    BY <2>1 DEF DoAcksNacks, OpenOf
  <2>3. upsets = 0 /\ nackIds = {}
    BY <1>2, <1>5 DEF HeldInv, Settled
  <2>4. ASSUME NEW d \in ackIds PROVE db'[d] = "done"
    <3>1. d \in D /\ db[d] \in {"due", "leased", "done"}
      BY <1>1 DEF StreamType, SharedType, Known, Published
    <3> QED BY <2>2, <2>3, <3>1 DEF OpenOf, Open
  <2> QED BY <2>2, <2>4
<1>6. Settled'
  BY <1>2, <1>3, <1>5 DEF HeldInv, Settled, DbForward, StreamType, RefreshType
<1>7. /\ ackIds' \subseteq Published /\ fastAck' \subseteq Published
      /\ slowAck' \subseteq Published
  BY <1>1, <1>3 DEF Known
<1> QED BY <1>1, <1>2, <1>4, <1>6, <1>7, HeldGeneral DEF Known

LEMMA HeldRefresher ==
    ASSUME StreamType, HeldInv, DbForward, QueryPending \/ RemoveCompleted
    PROVE  HeldInv'
<1>1. Known
  BY DEF HeldInv
<1>2. UNCHANGED <<db, batch, reader, ackIds, nackIds, held, fastAck, slowAck,
                  nackQueue, upsets>>
  BY Zenon DEF QueryPending, RemoveCompleted, dbVars, senderVars, readerVars,
     clientVars, boundVars
<1>3. /\ gone' \subseteq Published /\ pending' \subseteq pending
      /\ upsets = 0 => /\ \A d \in pending \ pending' : db[d] = "done"
                       /\ \A d \in gone' : db[d] = "done"
  <2>1. CASE QueryPending
    <3>1. gone' = Completed(pending) /\ pending' = pending
      BY <2>1 DEF QueryPending
    <3>2. \A d \in Completed(pending) : d \in pending /\ db[d] = "done"
      BY <1>1 DEF Completed, OpenOf, Open, StreamType, SharedType, Known, Published
    <3> QED BY <1>1, <3>1, <3>2 DEF Known
  <2>2. CASE RemoveCompleted
    BY <2>2 DEF RemoveCompleted, HeldInv, Settled
  <2> QED BY <2>1, <2>2
<1>4. Settled'
  BY <1>2, <1>3 DEF HeldInv, Settled
<1>5. pending' \subseteq Published
  BY <1>1, <1>3 DEF Known
<1> QED BY <1>1, <1>2, <1>3, <1>4, <1>5, HeldGeneral DEF Known

LEMMA HeldStep ==
    ASSUME StreamType, HeldInv, [StreamNext]_streamVars
    PROVE  HeldInv'
<1>1. DbForward
  BY DbStep
<1>2. CASE Sender \/ Reader \/ QueryPending \/ RemoveCompleted
  BY <1>1, <1>2, HeldSender, HeldReader, HeldRefresher
<1>3. CASE \/ RefresherEnds \/ PickDelays \/ Delayer \/ Close \/ Cancel
           \/ UNCHANGED streamVars
  <2>1. UNCHANGED <<pending, batch, ackIds, nackIds, gone, reader, nackQueue,
                    held, fastAck, slowAck>>
    BY <1>3, Zenon DEF RefresherEnds, PickDelays, Delayer, AutoDelay,
       DelayerEnds, Close, Cancel, streamVars, senderVars, readerVars,
       refreshVars, clientVars
  <2> QED BY <1>1, <2>1, HeldUnchanged
<1>4. ASSUME NEW d \in D, Outside(d)
      PROVE  HeldInv'
  <2>1. UNCHANGED <<pending, batch, ackIds, nackIds, gone, reader>>
    BY <1>4, Zenon DEF Outside, DoDelay, AnswerOf, AnswerGrpc, AnswerPush,
       AnswerStandalone, AbandonPush, PublishOne, Lapse, SeekOne, senderVars,
       readerVars, refreshVars
  <2>2. /\ held' \subseteq held
        /\ fastAck' \subseteq fastAck \cup held
        /\ slowAck' \subseteq slowAck \cup held
    BY <1>4 DEF Outside, DoDelay, AnswerOf, AnswerGrpc, AnswerPush,
       AnswerStandalone, AbandonPush, PublishOne, Lapse, SeekOne, clientVars
  <2>3. CASE nackQueue' = nackQueue
    BY <1>1, <2>1, <2>2, <2>3, HeldUnchanged
  <2>4. CASE nackQueue' # nackQueue
    <3>1. AnswerPush(d)
      BY <1>4, <2>4, Zenon DEF Outside, DoDelay, AnswerOf, AnswerGrpc,
         AnswerStandalone, AbandonPush, PublishOne, Lapse, SeekOne, clientVars
    <3>2. upsets' = upsets + 1
      BY <2>4, <3>1 DEF AnswerPush
    <3>3. upsets \in Nat /\ upsets' # 0
      BY <3>2, StreamAssumption DEF StreamType, SharedType
    <3>4. Known
      BY DEF HeldInv
    <3>5. Settled'
      BY <3>3 DEF Settled
    <3>6. /\ fastAck' \subseteq Published /\ slowAck' \subseteq Published
          /\ held' \subseteq Published
      BY <2>2, <3>4 DEF Known
    <3> QED BY <1>1, <2>1, <2>2, <3>4, <3>5, <3>6, HeldGeneral DEF Known
  <2> QED BY <2>3, <2>4
<1> QED BY <1>2, <1>3, <1>4, StreamSteps DEF Refresher

\* Unless something is nacked or sought, every open delivery that the client
\* works on is counted in pending, however redeliveries, answers, refreshes and
\* extensions cross each other: nothing that is open is taken for answered.
THEOREM HeldAlwaysPending == StreamSpec => []HeldIsPending
<1>1. StreamInit => HeldInv
  BY DEF StreamInit, HeldInv, Known, Settled, HeldIsPending, OpenOf
<1>2. StreamType /\ HeldInv /\ [StreamNext]_streamVars => HeldInv'
  BY HeldStep
<1>3. HeldInv => HeldIsPending
  BY DEF HeldInv
<1> QED BY <1>1, <1>2, <1>3, StreamTypeAlways, PTL DEF StreamSpec
=============================================================================
