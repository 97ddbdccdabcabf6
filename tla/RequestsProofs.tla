--------------------------- MODULE RequestsProofs ---------------------------
(***************************************************************************)
(* What holds of sensitive requests for every number of threads, requests, *)
(* files and entries of the log: of the PIN (PinConfirmation), the file    *)
(* operations (FileOperations) and the action log (AuditLog).              *)
(***************************************************************************)
EXTENDS MCRequests, Integers, Sequences, FiniteSetTheorems, NaturalsInduction, WellFoundedInduction, TLAPS

USE PinAssumption, LogAssumption

-----------------------------------------------------------------------------
(* The PIN: what the proofs rest on.                                       *)

Verifying == {"expired", "forget", "allowed", "barred", "factor", "compare", "accept",
              "run", "record", "recheck", "drop"}

\* A thread that verifies has read a request that was made, and only such a thread gets past
\* reading.
HeldInv ==
  /\ slot \in requested \cup {None}
  /\ \A c \in Callers :
       /\ held[c] \in requested \cup {None}
       /\ pc[c] \in Verifying => held[c] \in requested
       /\ result[c] = "wrong" => held[c] \in requested
       /\ pc[c] \notin Verifying \cup {"answer"} => held[c] = None /\ result[c] = "none"

\* A request enters the slot once.  What was buried is neither there nor read by anybody, and
\* what was executed, or is about to be, has left it.
SlotInv ==
  /\ \A r \in dead : r \in requested /\ r # slot /\ ~Held(r) /\ executed[r] = 0
  /\ \A r \in Requests : executed[r] # 0 => r \in requested /\ r # slot
  /\ \A c \in Callers : pc[c] = "run" => held[c] # slot
  /\ slot # None => slot = prompted \/ slot \in unheard

\* The threads that hold a request and have not answered it.
Chances(r) == {c \in Callers : held[c] = r /\ pc[c] # "answer"}

ChanceInv == \A r \in Requests : executed[r] + Cardinality(Chances(r)) <= Cardinality(Callers)

\* With the voice loop alone: the other threads rest; what is verified is in the slot until
\* it is discarded; a request executes in its only turn, and for the PIN it was asked for.
AloneInv ==
  ~desktop =>
    /\ \A c \in Callers \ {Voice} : pc[c] = "idle"
    /\ pc[Voice] \in Verifying \ {"forget", "run"} => held[Voice] = slot
    /\ pc[Voice] \in {"forget", "run", "canceled", "unflag"} => slot = None
    /\ pc[Voice] = "answer" => result[Voice] # "none"
    /\ result[Voice] = "over" => slot = None \/ pc[Voice] \in {"record", "recheck", "drop"}
    /\ result[Voice] = "executed" => slot = None /\ pc[Voice] = "answer"
    /\ result[Voice] = "wrong" => pc[Voice] = "answer" /\ held[Voice] = slot
    /\ pc[Voice] \in {"drop"} => result[Voice] = "over"
    /\ \A r \in Requests :
         executed[r] <= 1 /\ (r \in strayed => r \in unheard)
    /\ \A r \in Requests : pc[Voice] \in Verifying /\ held[Voice] = r => executed[r] = 0
    /\ pc[Voice] \in {"heard", "read"} => asked[Voice] = prompted
    /\ pc[Voice] \in Verifying => held[Voice] = asked[Voice] \/ held[Voice] \in unheard

\* With the voice loop alone: the counter has counted every wrong PIN for what is in the slot,
\* but for the moment between the verdict and the discard.
CountInv ==
  ~desktop =>
    /\ \A r \in Requests : wrongs[r] <= MaxFactorAttempts /\ (wrongs[r] # 0 => r \in requested)
    /\ \A r \in Requests : r = slot =>
         \/ wrongs[r] <= factor.failed
         \/ pc[Voice] = "accept"
         \/ pc[Voice] \in {"record", "recheck", "drop"} /\ result[Voice] = "over"

\* With the voice loop alone: the flag is fresh as long as what it was set for is pending.
FlagInv ==
  ~desktop /\ Live(slot) /\ slot \notin unheard /\ pc[Voice] # "created" => flag = "fresh"

\* The actions of a thread, in three groups (Verify is the one in between).
Asking(c) ==
  \/ RequestSpoken(c) \/ RequestInChain(c) \/ SetFlag(c) \/ InlinePin(c) \/ NoInlinePin(c)
  \/ SpeakPin(c) \/ Heard(c)
Canceling(c) == Cancel(c) \/ CancelClears(c) \/ Unflag(c) \/ DropStaleFlag(c)

\* A counter of failures stays a counter.
LEMMA CounterTypes ==
  ASSUME NEW max \in Nat \ {0}, NEW counter \in Counter(max)
  PROVE  AfterFailure(counter, max) \in Counter(max) /\ Clear \in Counter(max)
  BY DEF AfterFailure, Counter, Clear

\* Asking for a PIN, or hearing one, keeps types and who holds what.
LEMMA AskingKeepsTypes ==
  ASSUME TypeOK, HeldInv, NEW c \in Callers, Asking(c)
  PROVE  TypeOK' /\ HeldInv'
  <1> USE DEF TypeOK, HeldInv, Verifying, Points, Flags, Results, Move, thread, counters, setting, history
  <1>1. CASE RequestSpoken(c)
    BY <1>1 DEF RequestSpoken, Request, Create, Buried
  <1>2. CASE RequestInChain(c)
    BY <1>2 DEF RequestInChain, Request, Create, Buried
  <1>3. CASE SetFlag(c)
    BY <1>3 DEF SetFlag
  <1>4. CASE InlinePin(c)
    BY <1>4 DEF InlinePin
  <1>5. CASE NoInlinePin(c)
    BY <1>5 DEF NoInlinePin
  <1>6. CASE SpeakPin(c)
    BY <1>6 DEF SpeakPin
  <1>7. CASE Heard(c)
    BY <1>7 DEF Heard, WithoutStale
  <1>8. QED
    BY <1>1, <1>2, <1>3, <1>4, <1>5, <1>6, <1>7 DEF Asking

\* So does every step of a verification.
LEMMA VerifyingKeepsTypes ==
  ASSUME TypeOK, HeldInv, NEW c \in Callers, Verify(c)
  PROVE  TypeOK' /\ HeldInv'
  <1> USE DEF TypeOK, HeldInv, Verifying, Points, Flags, Results, Move, thread, counters, setting, history
  <1>1. CASE ReadSlot(c)
    BY CounterTypes, <1>1 DEF ReadSlot, Answering
  <1>2. CASE DiscardExpired(c)
    BY CounterTypes, <1>2 DEF DiscardExpired, Discard, Buried
  <1>3. CASE Forget(c)
    BY CounterTypes, <1>3 DEF Forget, Answering
  <1>4. CASE IsAllowed(c)
    BY CounterTypes, <1>4 DEF IsAllowed
  <1>5. CASE DiscardBarred(c)
    BY CounterTypes, <1>5 DEF DiscardBarred, Discard, Buried
  <1>6. CASE FactorBlocked(c)
    BY CounterTypes, <1>6 DEF FactorBlocked, Answering
  <1>7. CASE RightPin(c)
    BY CounterTypes, <1>7 DEF RightPin
  <1>8. CASE WrongPin(c)
    BY CounterTypes, <1>8 DEF WrongPin, Answering
  <1>9. CASE Accept(c)
    BY CounterTypes, <1>9 DEF Accept, Discard, Buried
  <1>10. CASE Execute(c)
    <2>1. held[c] \in Requests
      BY <1>10 DEF Execute
    <2>2. executed' \in [Requests -> Nat] /\ strayed' \subseteq Requests
      BY <1>10, <2>1 DEF Execute
    <2>3. QED
      BY CounterTypes, <1>10, <2>2 DEF Execute, Answering
  <1>11. CASE RecordFailure(c)
    BY CounterTypes, <1>11 DEF RecordFailure
  <1>12. CASE Recheck(c)
    BY CounterTypes, <1>12 DEF Recheck, Answering
  <1>13. CASE DropLocked(c)
    BY CounterTypes, <1>13 DEF DropLocked, Buried
  <1>14. CASE Answer(c)
    BY CounterTypes, <1>14 DEF Answer, FlagAfter
  <1>15. QED
    BY <1>1, <1>2, <1>3, <1>4, <1>5, <1>6, <1>7, <1>8, <1>9, <1>10, <1>11, <1>12, <1>13, <1>14 DEF Verify

\* So does canceling.
LEMMA OthersKeepTypes ==
  ASSUME TypeOK, HeldInv, NEW c \in Callers, Canceling(c)
  PROVE  TypeOK' /\ HeldInv'
  <1> USE DEF TypeOK, HeldInv, Verifying, Points, Flags, Results, Move, thread, counters, setting, history
  <1>1. CASE Cancel(c)
    BY CounterTypes, <1>1 DEF Cancel, Buried, CancelDiscards
  <1>2. CASE CancelClears(c)
    BY CounterTypes, <1>2 DEF CancelClears
  <1>3. CASE Unflag(c)
    BY CounterTypes, <1>3 DEF Unflag
  <1>4. CASE DropStaleFlag(c)
    BY CounterTypes, <1>4 DEF DropStaleFlag
  <1>5. QED
    BY <1>1, <1>2, <1>3, <1>4 DEF Canceling

\* So does time.
LEMMA TimeKeepsTypes ==
  ASSUME TypeOK, HeldInv, Time
  PROVE  TypeOK' /\ HeldInv'
  <1> USE DEF TypeOK, HeldInv, Verifying, Points, Flags, Results, Move, thread, counters, setting, history, Counter
  <1>1. CASE Expire
    BY <1>1 DEF Expire
  <1>2. CASE FlagAges
    BY <1>2 DEF FlagAges
  <1>3. CASE FactorUnblocks
    BY <1>3 DEF FactorUnblocks
  <1>4. CASE ConfirmUnblocks
    BY <1>4 DEF ConfirmUnblocks
  <1>5. QED
    BY <1>1, <1>2, <1>3, <1>4 DEF Time

-----------------------------------------------------------------------------
\* A new request takes the slot; what was in it is buried and is read by nobody.
LEMMA AskKeepsSlot ==
  ASSUME TypeOK, HeldInv, SlotInv, NEW c \in Callers, Asking(c)
  PROVE  SlotInv'
  <1> USE DEF TypeOK, HeldInv, SlotInv, Held, Verifying, Move, thread, counters, setting, history
  <1>1. CASE RequestSpoken(c)
    BY <1>1 DEF RequestSpoken, Request, Create, Buried
  <1>2. CASE RequestInChain(c)
    BY <1>2 DEF RequestInChain, Request, Create, Buried
  <1>3. CASE SetFlag(c)
    BY <1>3 DEF SetFlag
  <1>4. CASE InlinePin(c)
    BY <1>4 DEF InlinePin
  <1>5. CASE NoInlinePin(c)
    BY <1>5 DEF NoInlinePin
  <1>6. CASE SpeakPin(c)
    BY <1>6 DEF SpeakPin
  <1>7. CASE Heard(c)
    BY <1>7 DEF Heard, WithoutStale
  <1>8. QED
    BY <1>1, <1>2, <1>3, <1>4, <1>5, <1>6, <1>7 DEF Asking

\* A verification empties the slot before it executes what was there.
LEMMA VerifyKeepsSlot ==
  ASSUME TypeOK, HeldInv, SlotInv, NEW c \in Callers, Verify(c)
  PROVE  SlotInv'
  <1> USE DEF TypeOK, HeldInv, SlotInv, Held, Verifying, Move, thread, counters, setting, history
  <1>1. CASE ReadSlot(c)
    BY <1>1 DEF ReadSlot, Answering
  <1>2. CASE DiscardExpired(c)
    BY <1>2 DEF DiscardExpired, Discard, Buried
  <1>3. CASE Forget(c)
    BY <1>3 DEF Forget, Answering
  <1>4. CASE IsAllowed(c)
    BY <1>4 DEF IsAllowed
  <1>5. CASE DiscardBarred(c)
    BY <1>5 DEF DiscardBarred, Discard, Buried
  <1>6. CASE FactorBlocked(c)
    BY <1>6 DEF FactorBlocked, Answering
  <1>7. CASE RightPin(c)
    BY <1>7 DEF RightPin
  <1>8. CASE WrongPin(c)
    BY <1>8 DEF WrongPin, Answering
  <1>9. CASE Accept(c)
    BY <1>9 DEF Accept, Discard, Buried
  <1>10. CASE Execute(c)
    BY <1>10 DEF Execute, Answering
  <1>11. CASE RecordFailure(c)
    BY <1>11 DEF RecordFailure
  <1>12. CASE Recheck(c)
    BY <1>12 DEF Recheck, Answering
  <1>13. CASE DropLocked(c)
    BY <1>13 DEF DropLocked, Buried
  <1>14. CASE Answer(c)
    BY <1>14 DEF Answer, FlagAfter
  <1>15. QED
    BY <1>1, <1>2, <1>3, <1>4, <1>5, <1>6, <1>7, <1>8, <1>9, <1>10, <1>11, <1>12, <1>13, <1>14 DEF Verify

\* What is canceled is buried, unless a thread has read it already.
LEMMA CancelKeepsSlot ==
  ASSUME TypeOK, HeldInv, SlotInv, NEW c \in Callers, Canceling(c)
  PROVE  SlotInv'
  <1> USE DEF TypeOK, HeldInv, SlotInv, Held, Verifying, Move, thread, counters, setting, history
  <1>1. CASE Cancel(c)
    BY <1>1 DEF Cancel, Buried, CancelDiscards
  <1>2. CASE CancelClears(c)
    BY <1>2 DEF CancelClears
  <1>3. CASE Unflag(c)
    BY <1>3 DEF Unflag
  <1>4. CASE DropStaleFlag(c)
    BY <1>4 DEF DropStaleFlag
  <1>5. QED
    BY <1>1, <1>2, <1>3, <1>4 DEF Canceling

\* What goes stale stays where it is.
LEMMA TimeKeepsSlot ==
  ASSUME TypeOK, HeldInv, SlotInv, Time
  PROVE  SlotInv'
  <1> USE DEF TypeOK, HeldInv, SlotInv, Held, Verifying, Move, thread, counters, setting, history
  <1>1. CASE Expire
    BY <1>1 DEF Expire
  <1>2. CASE FlagAges
    BY <1>2 DEF FlagAges
  <1>3. CASE FactorUnblocks
    BY <1>3 DEF FactorUnblocks
  <1>4. CASE ConfirmUnblocks
    BY <1>4 DEF ConfirmUnblocks
  <1>5. QED
    BY <1>1, <1>2, <1>3, <1>4 DEF Time

\* With the voice loop alone a question is about what is in the slot.
LEMMA AskKeepsAlone ==
  ASSUME TypeOK, HeldInv, SlotInv, AloneInv, NEW c \in Callers, Asking(c)
  PROVE  AloneInv'
  <1> USE DEF TypeOK, HeldInv, SlotInv, AloneInv, Verifying, Move, Active, Live, thread, counters, setting, history
  <1>1. CASE RequestSpoken(c)
    BY <1>1 DEF RequestSpoken, Request, Create, Buried
  <1>2. CASE RequestInChain(c)
    BY <1>2 DEF RequestInChain, Request, Create, Buried
  <1>3. CASE SetFlag(c)
    BY <1>3 DEF SetFlag
  <1>4. CASE InlinePin(c)
    BY <1>4 DEF InlinePin
  <1>5. CASE NoInlinePin(c)
    BY <1>5 DEF NoInlinePin
  <1>6. CASE SpeakPin(c)
    BY <1>6 DEF SpeakPin
  <1>7. CASE Heard(c)
    BY <1>7 DEF Heard, WithoutStale
  <1>8. QED
    BY <1>1, <1>2, <1>3, <1>4, <1>5, <1>6, <1>7 DEF Asking

\* With the voice loop alone what was read stays in the slot until it is discarded.
LEMMA VerifyKeepsAlone ==
  ASSUME TypeOK, HeldInv, SlotInv, AloneInv, NEW c \in Callers, Verify(c)
  PROVE  AloneInv'
  <1> USE DEF TypeOK, HeldInv, SlotInv, AloneInv, Verifying, Move, Active, Live, thread, counters, setting, history
  <1>1. CASE ReadSlot(c)
    BY <1>1 DEF ReadSlot, Answering
  <1>2. CASE DiscardExpired(c)
    BY <1>2 DEF DiscardExpired, Discard, Buried
  <1>3. CASE Forget(c)
    BY <1>3 DEF Forget, Answering
  <1>4. CASE IsAllowed(c)
    BY <1>4 DEF IsAllowed
  <1>5. CASE DiscardBarred(c)
    BY <1>5 DEF DiscardBarred, Discard, Buried
  <1>6. CASE FactorBlocked(c)
    BY <1>6 DEF FactorBlocked, Answering
  <1>7. CASE RightPin(c)
    BY <1>7 DEF RightPin
  <1>8. CASE WrongPin(c)
    BY <1>8 DEF WrongPin, Answering
  <1>9. CASE Accept(c)
    BY <1>9 DEF Accept, Discard, Buried
  <1>10. CASE Execute(c)
    BY <1>10 DEF Execute, Answering
  <1>11. CASE RecordFailure(c)
    BY <1>11 DEF RecordFailure
  <1>12. CASE Recheck(c)
    BY <1>12 DEF Recheck, Answering
  <1>13. CASE DropLocked(c)
    BY <1>13 DEF DropLocked, Buried
  <1>14. CASE Answer(c)
    BY <1>14 DEF Answer, FlagAfter
  <1>15. QED
    BY <1>1, <1>2, <1>3, <1>4, <1>5, <1>6, <1>7, <1>8, <1>9, <1>10, <1>11, <1>12, <1>13, <1>14 DEF Verify

\* With the voice loop alone a cancellation finds no verification under way.
LEMMA CancelKeepsAlone ==
  ASSUME TypeOK, HeldInv, SlotInv, AloneInv, NEW c \in Callers, Canceling(c)
  PROVE  AloneInv'
  <1> USE DEF TypeOK, HeldInv, SlotInv, AloneInv, Verifying, Move, Active, Live, thread, counters, setting, history
  <1>1. CASE Cancel(c)
    BY <1>1 DEF Cancel, Buried, CancelDiscards
  <1>2. CASE CancelClears(c)
    BY <1>2 DEF CancelClears
  <1>3. CASE Unflag(c)
    BY <1>3 DEF Unflag
  <1>4. CASE DropStaleFlag(c)
    BY <1>4 DEF DropStaleFlag
  <1>5. QED
    BY <1>1, <1>2, <1>3, <1>4 DEF Canceling

\* With the voice loop alone time changes nothing the loop has read.
LEMMA TimeKeepsAlone ==
  ASSUME TypeOK, HeldInv, SlotInv, AloneInv, Time
  PROVE  AloneInv'
  <1> USE DEF TypeOK, HeldInv, SlotInv, AloneInv, Verifying, Move, Active, Live, thread, counters, setting, history
  <1>1. CASE Expire
    BY <1>1 DEF Expire
  <1>2. CASE FlagAges
    BY <1>2 DEF FlagAges
  <1>3. CASE FactorUnblocks
    BY <1>3 DEF FactorUnblocks
  <1>4. CASE ConfirmUnblocks
    BY <1>4 DEF ConfirmUnblocks
  <1>5. QED
    BY <1>1, <1>2, <1>3, <1>4 DEF Time

\* A request that is new was answered with no wrong PIN.
LEMMA AskKeepsCount ==
  ASSUME TypeOK, HeldInv, AloneInv, CountInv, NEW c \in Callers, Asking(c)
  PROVE  CountInv'
  <1> USE DEF TypeOK, HeldInv, AloneInv, CountInv, Verifying, Move, Active, Live, thread, counters, setting, history
  <1>0. factor.failed \in 0 .. (MaxFactorAttempts - 1)
    BY DEF Counter
  <1>1. CASE RequestSpoken(c)
    BY <1>0, <1>1 DEF RequestSpoken, Request, Create, Buried
  <1>2. CASE RequestInChain(c)
    BY <1>0, <1>2 DEF RequestInChain, Request, Create, Buried
  <1>3. CASE SetFlag(c)
    BY <1>3 DEF SetFlag
  <1>4. CASE InlinePin(c)
    BY <1>4 DEF InlinePin
  <1>5. CASE NoInlinePin(c)
    BY <1>5 DEF NoInlinePin
  <1>6. CASE SpeakPin(c)
    BY <1>6 DEF SpeakPin
  <1>7. CASE Heard(c)
    BY <1>7 DEF Heard, WithoutStale
  <1>8. QED
    BY <1>1, <1>2, <1>3, <1>4, <1>5, <1>6, <1>7 DEF Asking

\* A wrong PIN for what is in the slot is counted before the next one is heard.
LEMMA VerifyKeepsCount ==
  ASSUME TypeOK, HeldInv, AloneInv, CountInv, NEW c \in Callers, Verify(c)
  PROVE  CountInv'
  <1> USE DEF TypeOK, HeldInv, AloneInv, CountInv, Verifying, Move, Active, Live, thread, counters, setting, history
  <1>0. factor.failed \in 0 .. (MaxFactorAttempts - 1)
    BY DEF Counter
  <1>1. CASE ReadSlot(c)
    BY <1>1 DEF ReadSlot, Answering
  <1>2. CASE DiscardExpired(c)
    BY <1>2 DEF DiscardExpired, Discard, Buried
  <1>3. CASE Forget(c)
    BY <1>3 DEF Forget, Answering
  <1>4. CASE IsAllowed(c)
    BY <1>4 DEF IsAllowed
  <1>5. CASE DiscardBarred(c)
    BY <1>5 DEF DiscardBarred, Discard, Buried
  <1>6. CASE FactorBlocked(c)
    BY <1>6 DEF FactorBlocked, Answering
  <1>7. CASE RightPin(c)
    BY <1>7 DEF RightPin
  <1>8. CASE WrongPin(c)
    BY <1>0, <1>8 DEF WrongPin, Answering, AfterFailure, Counter
  <1>9. CASE Accept(c)
    BY <1>9 DEF Accept, Discard, Buried
  <1>10. CASE Execute(c)
    BY <1>10 DEF Execute, Answering
  <1>11. CASE RecordFailure(c)
    BY <1>11 DEF RecordFailure
  <1>12. CASE Recheck(c)
    BY <1>12 DEF Recheck, Answering
  <1>13. CASE DropLocked(c)
    BY <1>13 DEF DropLocked, Buried
  <1>14. CASE Answer(c)
    BY <1>14 DEF Answer, FlagAfter
  <1>15. QED
    BY <1>1, <1>2, <1>3, <1>4, <1>5, <1>6, <1>7, <1>8, <1>9, <1>10, <1>11, <1>12, <1>13, <1>14 DEF Verify

\* Canceling hears no PIN.
LEMMA CancelKeepsCount ==
  ASSUME TypeOK, HeldInv, AloneInv, CountInv, NEW c \in Callers, Canceling(c)
  PROVE  CountInv'
  <1> USE DEF TypeOK, HeldInv, AloneInv, CountInv, Verifying, Move, Active, Live, thread, counters, setting, history
  <1>1. CASE Cancel(c)
    BY <1>1 DEF Cancel, Buried, CancelDiscards
  <1>2. CASE CancelClears(c)
    BY <1>2 DEF CancelClears
  <1>3. CASE Unflag(c)
    BY <1>3 DEF Unflag
  <1>4. CASE DropStaleFlag(c)
    BY <1>4 DEF DropStaleFlag
  <1>5. QED
    BY <1>1, <1>2, <1>3, <1>4 DEF Canceling

\* Time hears no PIN, and a lock that ends changes no count.
LEMMA TimeKeepsCount ==
  ASSUME TypeOK, HeldInv, AloneInv, CountInv, Time
  PROVE  CountInv'
  <1> USE DEF TypeOK, HeldInv, AloneInv, CountInv, Verifying, Move, Active, Live, thread, counters, setting, history
  <1>1. CASE Expire
    BY <1>1 DEF Expire
  <1>2. CASE FlagAges
    BY <1>2 DEF FlagAges
  <1>3. CASE FactorUnblocks
    BY <1>3 DEF FactorUnblocks
  <1>4. CASE ConfirmUnblocks
    BY <1>4 DEF ConfirmUnblocks
  <1>5. QED
    BY <1>1, <1>2, <1>3, <1>4 DEF Time

\* A request that is announced sets the flag.
LEMMA AskKeepsFlag ==
  ASSUME TypeOK, HeldInv, AloneInv, FlagInv, NEW c \in Callers, Asking(c)
  PROVE  FlagInv'
  <1> USE DEF TypeOK, HeldInv, AloneInv, FlagInv, Verifying, Move, Active, Live, thread, counters, setting, history
  <1>1. CASE RequestSpoken(c)
    BY <1>1 DEF RequestSpoken, Request, Create, Buried
  <1>2. CASE RequestInChain(c)
    BY <1>2 DEF RequestInChain, Request, Create, Buried
  <1>3. CASE SetFlag(c)
    BY <1>3 DEF SetFlag
  <1>4. CASE InlinePin(c)
    BY <1>4 DEF InlinePin
  <1>5. CASE NoInlinePin(c)
    BY <1>5 DEF NoInlinePin
  <1>6. CASE SpeakPin(c)
    BY <1>6 DEF SpeakPin
  <1>7. CASE Heard(c)
    BY <1>7 DEF Heard, WithoutStale
  <1>8. QED
    BY <1>1, <1>2, <1>3, <1>4, <1>5, <1>6, <1>7 DEF Asking

\* A verification that clears the flag has emptied the slot.
LEMMA VerifyKeepsFlag ==
  ASSUME TypeOK, HeldInv, AloneInv, FlagInv, NEW c \in Callers, Verify(c)
  PROVE  FlagInv'
  <1> USE DEF TypeOK, HeldInv, AloneInv, FlagInv, Verifying, Move, Active, Live, thread, counters, setting, history
  <1>1. CASE ReadSlot(c)
    BY <1>1 DEF ReadSlot, Answering
  <1>2. CASE DiscardExpired(c)
    BY <1>2 DEF DiscardExpired, Discard, Buried
  <1>3. CASE Forget(c)
    BY <1>3 DEF Forget, Answering
  <1>4. CASE IsAllowed(c)
    BY <1>4 DEF IsAllowed
  <1>5. CASE DiscardBarred(c)
    BY <1>5 DEF DiscardBarred, Discard, Buried
  <1>6. CASE FactorBlocked(c)
    BY <1>6 DEF FactorBlocked, Answering
  <1>7. CASE RightPin(c)
    BY <1>7 DEF RightPin
  <1>8. CASE WrongPin(c)
    BY <1>8 DEF WrongPin, Answering
  <1>9. CASE Accept(c)
    BY <1>9 DEF Accept, Discard, Buried
  <1>10. CASE Execute(c)
    BY <1>10 DEF Execute, Answering
  <1>11. CASE RecordFailure(c)
    BY <1>11 DEF RecordFailure
  <1>12. CASE Recheck(c)
    BY <1>12 DEF Recheck, Answering
  <1>13. CASE DropLocked(c)
    BY <1>13 DEF DropLocked, Buried
  <1>14. CASE Answer(c)
    BY <1>14 DEF Answer, FlagAfter, Results
  <1>15. QED
    BY <1>1, <1>2, <1>3, <1>4, <1>5, <1>6, <1>7, <1>8, <1>9, <1>10, <1>11, <1>12, <1>13, <1>14 DEF Verify

\* So has a cancellation.
LEMMA CancelKeepsFlag ==
  ASSUME TypeOK, HeldInv, AloneInv, FlagInv, NEW c \in Callers, Canceling(c)
  PROVE  FlagInv'
  <1> USE DEF TypeOK, HeldInv, AloneInv, FlagInv, Verifying, Move, Active, Live, thread, counters, setting, history
  <1>1. CASE Cancel(c)
    BY <1>1 DEF Cancel, Buried, CancelDiscards
  <1>2. CASE CancelClears(c)
    BY <1>2 DEF CancelClears
  <1>3. CASE Unflag(c)
    BY <1>3 DEF Unflag
  <1>4. CASE DropStaleFlag(c)
    BY <1>4 DEF DropStaleFlag
  <1>5. QED
    BY <1>1, <1>2, <1>3, <1>4 DEF Canceling

\* The flag goes stale no earlier than what it was set for.
LEMMA TimeKeepsFlag ==
  ASSUME TypeOK, HeldInv, AloneInv, FlagInv, Time
  PROVE  FlagInv'
  <1> USE DEF TypeOK, HeldInv, AloneInv, FlagInv, Verifying, Move, Active, Live, thread, counters, setting, history
  <1>1. CASE Expire
    BY <1>1 DEF Expire
  <1>2. CASE FlagAges
    BY <1>2 DEF FlagAges
  <1>3. CASE FactorUnblocks
    BY <1>3 DEF FactorUnblocks
  <1>4. CASE ConfirmUnblocks
    BY <1>4 DEF ConfirmUnblocks
  <1>5. QED
    BY <1>1, <1>2, <1>3, <1>4 DEF Time

-----------------------------------------------------------------------------
(* Counting: each thread that has read a request may execute it once.      *)

\* A set of callers can be counted.
LEMMA ChancesAreCountable ==
  ASSUME NEW S \in SUBSET Callers
  PROVE  /\ IsFiniteSet(S) /\ Cardinality(S) \in Nat
         /\ Cardinality(S) <= Cardinality(Callers)
  BY FS_Subset, FS_CardinalityType

\* A step that gives nobody a request, and executes none.
NoChance == UNCHANGED executed /\ \A r \in Requests : Chances(r)' \subseteq Chances(r)

\* A step that gives nobody a request executes nothing more often.
LEMMA NoChanceKeepsCount ==
  ASSUME TypeOK, ChanceInv, NoChance
  PROVE  ChanceInv'
  <1> SUFFICES ASSUME NEW r \in Requests
               PROVE  executed'[r] + Cardinality(Chances(r)') <= Cardinality(Callers)
    BY DEF ChanceInv
  <1>1. Chances(r) \in SUBSET Callers /\ Chances(r)' \subseteq Chances(r)
    BY DEF Chances, NoChance
  <1>2. /\ Cardinality(Chances(r)) \in Nat /\ Cardinality(Chances(r)') \in Nat
        /\ Cardinality(Chances(r)') <= Cardinality(Chances(r))
    BY <1>1, ChancesAreCountable, FS_Subset
  <1>3. executed'[r] = executed[r] /\ executed[r] \in Nat
    BY DEF NoChance, TypeOK
  <1>4. Cardinality(Callers) \in Nat /\ executed[r] + Cardinality(Chances(r)) <= Cardinality(Callers)
    BY FS_CardinalityType DEF ChanceInv
  <1>5. QED
    BY <1>2, <1>3, <1>4

\* Asking gives nobody a request.
LEMMA AskGivesNoChance ==
  ASSUME TypeOK, NEW c \in Callers, Asking(c)
  PROVE  NoChance
  <1> USE DEF TypeOK, NoChance, Chances, Move, thread, counters, setting, history
  <1>1. CASE RequestSpoken(c)
    BY <1>1 DEF RequestSpoken, Request, Create, Buried
  <1>2. CASE RequestInChain(c)
    BY <1>2 DEF RequestInChain, Request, Create, Buried
  <1>3. CASE SetFlag(c)
    BY <1>3 DEF SetFlag
  <1>4. CASE InlinePin(c)
    BY <1>4 DEF InlinePin
  <1>5. CASE NoInlinePin(c)
    BY <1>5 DEF NoInlinePin
  <1>6. CASE SpeakPin(c)
    BY <1>6 DEF SpeakPin
  <1>7. CASE Heard(c)
    BY <1>7 DEF Heard, WithoutStale
  <1>8. QED
    BY <1>1, <1>2, <1>3, <1>4, <1>5, <1>6, <1>7 DEF Asking

\* Nor does a verification after it has read the slot, and before it executes.
LEMMA VerifyGivesNoChance ==
  ASSUME TypeOK, NEW c \in Callers, Verify(c) /\ ~ReadSlot(c) /\ ~Execute(c)
  PROVE  NoChance
  <1> USE DEF TypeOK, NoChance, Chances, Move, thread, counters, setting, history
  <1>1. CASE DiscardExpired(c)
    BY <1>1 DEF DiscardExpired, Discard, Buried
  <1>2. CASE Forget(c)
    BY <1>2 DEF Forget, Answering
  <1>3. CASE IsAllowed(c)
    BY <1>3 DEF IsAllowed
  <1>4. CASE DiscardBarred(c)
    BY <1>4 DEF DiscardBarred, Discard, Buried
  <1>5. CASE FactorBlocked(c)
    BY <1>5 DEF FactorBlocked, Answering
  <1>6. CASE RightPin(c)
    BY <1>6 DEF RightPin
  <1>7. CASE WrongPin(c)
    BY <1>7 DEF WrongPin, Answering
  <1>8. CASE Accept(c)
    BY <1>8 DEF Accept, Discard, Buried
  <1>9. CASE RecordFailure(c)
    BY <1>9 DEF RecordFailure
  <1>10. CASE Recheck(c)
    BY <1>10 DEF Recheck, Answering
  <1>11. CASE DropLocked(c)
    BY <1>11 DEF DropLocked, Buried
  <1>12. CASE Answer(c)
    BY <1>12 DEF Answer, FlagAfter
  <1>13. QED
    BY <1>1, <1>2, <1>3, <1>4, <1>5, <1>6, <1>7, <1>8, <1>9, <1>10, <1>11, <1>12 DEF Verify

\* Nor does a cancellation.
LEMMA CancelGivesNoChance ==
  ASSUME TypeOK, NEW c \in Callers, Canceling(c)
  PROVE  NoChance
  <1> USE DEF TypeOK, NoChance, Chances, Move, thread, counters, setting, history
  <1>1. CASE Cancel(c)
    BY <1>1 DEF Cancel, Buried, CancelDiscards
  <1>2. CASE CancelClears(c)
    BY <1>2 DEF CancelClears
  <1>3. CASE Unflag(c)
    BY <1>3 DEF Unflag
  <1>4. CASE DropStaleFlag(c)
    BY <1>4 DEF DropStaleFlag
  <1>5. QED
    BY <1>1, <1>2, <1>3, <1>4 DEF Canceling

\* Nor does time.
LEMMA TimeGivesNoChance ==
  ASSUME TypeOK, Time
  PROVE  NoChance
  <1> USE DEF TypeOK, NoChance, Chances, Move, thread, counters, setting, history
  <1>1. CASE Expire
    BY <1>1 DEF Expire
  <1>2. CASE FlagAges
    BY <1>2 DEF FlagAges
  <1>3. CASE FactorUnblocks
    BY <1>3 DEF FactorUnblocks
  <1>4. CASE ConfirmUnblocks
    BY <1>4 DEF ConfirmUnblocks
  <1>5. QED
    BY <1>1, <1>2, <1>3, <1>4 DEF Time

\* What is read was never executed, or it would have left the slot.
LEMMA ReadKeepsChances ==
  ASSUME TypeOK, HeldInv, SlotInv, ChanceInv, NEW c \in Callers, ReadSlot(c)
  PROVE  ChanceInv'
  <1> SUFFICES ASSUME NEW r \in Requests
               PROVE  executed'[r] + Cardinality(Chances(r)') <= Cardinality(Callers)
    BY DEF ChanceInv
  <1>1. executed'[r] = executed[r] /\ executed[r] \in Nat
    BY DEF ReadSlot, history, TypeOK
  <1>2. CASE r = slot
    <2>1. executed[r] = 0
      BY <1>2 DEF SlotInv, TypeOK
    <2>2. Chances(r)' \in SUBSET Callers
      BY DEF Chances
    <2>3. QED
      BY <1>1, <2>1, <2>2, ChancesAreCountable, FS_CardinalityType
  <1>3. CASE r # slot
    <2>1. Chances(r)' = Chances(r)
      BY <1>3 DEF Chances, ReadSlot, Move, Answering, TypeOK, HeldInv, Verifying
    <2>2. QED
      BY <1>1, <2>1 DEF ChanceInv
  <1>4. QED
    BY <1>2, <1>3

\* Who executes a request has had its chance.
LEMMA ExecuteKeepsChances ==
  ASSUME TypeOK, HeldInv, ChanceInv, NEW c \in Callers, Execute(c)
  PROVE  ChanceInv'
  <1> SUFFICES ASSUME NEW r \in Requests
               PROVE  executed'[r] + Cardinality(Chances(r)') <= Cardinality(Callers)
    BY DEF ChanceInv
  <1> USE DEF TypeOK, Execute, Move, Answering
  <1>1. Chances(r) \in SUBSET Callers
    BY DEF Chances
  <1>2. Cardinality(Chances(r)) \in Nat /\ IsFiniteSet(Chances(r)) /\ executed[r] \in Nat
    BY <1>1, ChancesAreCountable
  <1>3. Cardinality(Callers) \in Nat /\ executed[r] + Cardinality(Chances(r)) <= Cardinality(Callers)
    BY FS_CardinalityType DEF ChanceInv
  <1>4. CASE r = held[c]
    <2>1. c \in Chances(r) /\ Chances(r)' = Chances(r) \ {c}
      BY <1>4 DEF Chances
    <2>2. Cardinality(Chances(r)') = Cardinality(Chances(r)) - 1
      BY <1>2, <2>1, FS_RemoveElement
    <2>3. executed'[r] = executed[r] + 1
      BY <1>4
    <2>4. QED
      BY <1>2, <1>3, <2>2, <2>3
  <1>5. CASE r # held[c]
    <2>1. Chances(r)' = Chances(r)
      BY <1>5 DEF Chances
    <2>2. executed'[r] = executed[r]
      BY <1>5
    <2>3. QED
      BY <1>3, <2>1, <2>2
  <1>6. QED
    BY <1>4, <1>5

-----------------------------------------------------------------------------
(* The invariant of the PIN, and the theorem.                              *)

PinInv ==
  TypeOK /\ HeldInv /\ SlotInv /\ ChanceInv /\ AloneInv /\ CountInv /\ FlagInv

\* The invariant of the PIN holds at the beginning.
LEMMA PinInvInit == Init => PinInv
  <1> SUFFICES ASSUME Init PROVE PinInv
    OBVIOUS
  <1> USE DEF Init
  <1>1. TypeOK
    BY DEF TypeOK, Counter, Clear, Points, Flags, Results
  <1>2. HeldInv /\ SlotInv /\ AloneInv /\ CountInv /\ FlagInv
    BY DEF HeldInv, SlotInv, AloneInv, CountInv, FlagInv, Verifying, Live, Held, Clear
  <1>3. ChanceInv
    <2>1. \A r \in Requests : executed[r] = 0 /\ Chances(r) \in SUBSET Callers
      BY DEF Chances
    <2>2. QED
      BY <2>1, ChancesAreCountable DEF ChanceInv
  <1>4. QED
    BY <1>1, <1>2, <1>3 DEF PinInv

\* Every step keeps the invariant of the PIN.
LEMMA PinInvStep == PinInv /\ [Next]_vars => PinInv'
  <1> SUFFICES ASSUME PinInv, [Next]_vars PROVE PinInv'
    OBVIOUS
  <1> USE DEF PinInv
  <1>1. ASSUME NEW c \in Callers, Asking(c) PROVE PinInv'
    BY <1>1, AskingKeepsTypes, AskKeepsSlot, AskKeepsAlone, AskKeepsCount, AskKeepsFlag,
       AskGivesNoChance, NoChanceKeepsCount
  <1>2. ASSUME NEW c \in Callers, Verify(c) PROVE PinInv'
    <2>1. ChanceInv'
      BY <1>2, VerifyGivesNoChance, NoChanceKeepsCount, ReadKeepsChances, ExecuteKeepsChances
    <2>2. QED
      BY <1>2, <2>1, VerifyingKeepsTypes, VerifyKeepsSlot, VerifyKeepsAlone, VerifyKeepsCount, VerifyKeepsFlag
  <1>3. ASSUME NEW c \in Callers, Canceling(c) PROVE PinInv'
    BY <1>3, OthersKeepTypes, CancelKeepsSlot, CancelKeepsAlone, CancelKeepsCount, CancelKeepsFlag,
       CancelGivesNoChance, NoChanceKeepsCount
  <1>4. CASE Time
    BY <1>4, TimeKeepsTypes, TimeKeepsSlot, TimeKeepsAlone, TimeKeepsCount, TimeKeepsFlag,
       TimeGivesNoChance, NoChanceKeepsCount
  <1>5. CASE UNCHANGED vars
    <2> USE <1>5 DEF vars, thread, counters, setting, history
    <2>1. TypeOK' /\ HeldInv'
      BY DEF TypeOK, HeldInv
    <2>2. SlotInv'
      BY DEF SlotInv, Held
    <2>3. AloneInv' /\ CountInv' /\ FlagInv'
      BY DEF AloneInv, CountInv, FlagInv, Live
    <2>4. NoChance
      BY DEF NoChance, Chances
    <2>5. QED
      BY <2>1, <2>2, <2>3, <2>4, NoChanceKeepsCount
  <1>6. QED
    BY <1>1, <1>2, <1>3, <1>4, <1>5 DEF Next, Turn, Asking, Canceling

\* The invariant says what PinIsGuarded says.
LEMMA PinInvGuards == PinInv => PinIsGuarded
  <1> SUFFICES ASSUME PinInv PROVE PinIsGuarded
    OBVIOUS
  <1> USE DEF PinInv
  <1>1. DeadStaysDead
    BY DEF DeadStaysDead, SlotInv
  <1>2. ReleasedOnce /\ AttemptsBounded
    BY DEF ReleasedOnce, AttemptsBounded, AloneInv, CountInv
  <1>3. ReleasedOncePerThread
    <2> SUFFICES ASSUME NEW r \in Requests PROVE executed[r] <= Cardinality(Callers)
      BY DEF ReleasedOncePerThread
    <2>1. Chances(r) \in SUBSET Callers
      BY DEF Chances
    <2>2. Cardinality(Chances(r)) \in Nat /\ Cardinality(Callers) \in Nat /\ executed[r] \in Nat
      BY <2>1, ChancesAreCountable, FS_CardinalityType DEF TypeOK
    <2>3. QED
      BY <2>2 DEF ChanceInv
  <1>4. AskedIsHeard
    BY DEF AskedIsHeard, FlagInv
  <1>5. QED
    BY <1>1, <1>2, <1>3, <1>4 DEF PinIsGuarded

\* However many threads route commands and however many actions they ask for: nothing that was
\* canceled, replaced or locked out is executed, one PIN executes one action, and a pending
\* action is heard (verify_pin_and_execute).
THEOREM PinGuarded == RequestsSpec => []PinIsGuarded
  <1>1. RequestsInit => PinInv
    BY PinInvInit DEF RequestsInit
  <1>2. PinInv /\ [RequestsNext]_requestsVars => PinInv'
    <2>1. [RequestsNext]_requestsVars => [Next]_vars
      BY DEF RequestsNext, requestsVars
    <2>2. QED
      BY <2>1, PinInvStep
  <1>3. QED
    BY <1>1, <1>2, PinInvGuards, PTL DEF RequestsSpec

-----------------------------------------------------------------------------
(* The least number of a set: what every proof by induction here rests on. *)

Before == {p_ \in Nat \X Nat : p_[1] < p_[2]}

\* No set of numbers descends for ever.
LEMMA NatWf == IsWellFoundedOn(Before, Nat)
  BY NatLessThanWellFounded DEF OpToRel, Before
\* A set of numbers that is not empty has a least one.
LEMMA Least ==
  ASSUME NEW T \in SUBSET Nat, T # {}
  PROVE \E x \in T : \A y \in T : x <= y
  <1>1. PICK x \in T : \A y \in T : ~(<<y,x>> \in Before)
    BY NatWf, WFMin
  <1>2. ASSUME NEW y \in T PROVE x <= y
    <2>1. x \in Nat /\ y \in Nat OBVIOUS
    <2>2. <<y,x>> \in Nat \X Nat BY <2>1
    <2>3. ~(y < x) BY <1>1, <2>2, <2>1 DEF Before
    <2>4. QED BY <2>1, <2>3
  <1> QED BY <1>2

-----------------------------------------------------------------------------
(* The action log.                                                         *)

Edited(id) == <<"edited", id>>
Payloads == {Audit!Original(id) : id \in Nat} \cup {Edited(id) : id \in Nat}
Digests  == Seq(Payloads)
LogRows  == [payload : Payloads, prev : Digests, hash : Digests]

\* Every row remembers the hash of the row before it, and its own hash is that of its payload,
\* or of the payload it had when it was last sealed.
ChainInv ==
  /\ table \in Seq(LogRows)
  /\ Len(table) <= MaxEntries
  /\ edited \subseteq DOMAIN table
  /\ \A id \in DOMAIN table :
       /\ table[id].prev = Audit!PrevOf(id)
       /\ id \in edited => /\ table[id].payload = Edited(id)
                           /\ table[id].hash = Audit!Digest(Audit!PrevOf(id), Audit!Original(id))
       /\ id \notin edited => Audit!Follows(id)

\* A line is written of a row that is there, for one row one line.
LinesInv ==
  /\ text \in Seq(Nat)
  /\ \A k \in DOMAIN text : text[k] \in DOMAIN table
  /\ logger \in [Threads -> DOMAIN table \cup {None}]
  /\ lostLines \subseteq DOMAIN table
  /\ \A k, l \in DOMAIN text : text[k] = text[l] => k = l
  /\ \A t \in Threads, k \in DOMAIN text : text[k] # logger[t]
  /\ \A t, u \in Threads : logger[t] = logger[u] => t = u \/ logger[t] = None
  /\ \A id \in DOMAIN table :
       \/ \E k \in DOMAIN text : text[k] = id
       \/ \E t \in Threads : logger[t] = id
       \/ id \in lostLines

AuditInv == ChainInv /\ LinesInv

\* A row remembers a digest.
LEMMA PrevIsDigest ==
  ASSUME table \in Seq(LogRows), NEW id \in 1 .. Len(table) + 1
  PROVE  Audit!PrevOf(id) \in Digests
  <1>1. <<>> \in Digests
    BY DEF Digests
  <1>2. ASSUME id # 1 PROVE table[id - 1].hash \in Digests
    <2>1. id - 1 \in 1 .. Len(table) BY <1>2
    <2>2. table[id - 1] \in LogRows BY <2>1
    <2>3. QED BY <2>2 DEF LogRows
  <1>3. QED
    BY <1>1, <1>2 DEF Audit!PrevOf

\* A digest and a payload make a digest.
LEMMA DigestIsDigest ==
  ASSUME NEW d \in Digests, NEW pl \in Payloads
  PROVE  Audit!Digest(d, pl) \in Digests
  BY DEF Audit!Digest, Digests

\* A row that is inserted follows the row before it.
LEMMA InsertKeepsChain ==
  ASSUME ChainInv, NEW t \in Threads, Audit!Insert(t)
  PROVE  ChainInv'
  <1>0. PICK n : n = Len(table) + 1
    OBVIOUS
  <1> DEFINE prev == IF table = <<>> THEN <<>> ELSE table[Len(table)].hash
             row == [payload |-> Audit!Original(n), prev |-> prev, hash |-> Audit!Digest(prev, Audit!Original(n))]
  <1>1. table' = Append(table, row) /\ Len(table) < MaxEntries /\ edited' = edited
    BY <1>0 DEF Audit!Insert
  <1>2. prev = Audit!PrevOf(n) /\ n \in Nat /\ n \in 1 .. Len(table) + 1
    BY <1>0 DEF Audit!PrevOf, ChainInv
  <1>3. row \in LogRows
    <2>1. prev \in Digests BY <1>2, PrevIsDigest DEF ChainInv
    <2>2. Audit!Original(n) \in Payloads BY <1>2 DEF Payloads
    <2> HIDE DEF prev
    <2>3. Audit!Digest(prev, Audit!Original(n)) \in Digests BY <2>1, <2>2, DigestIsDigest
    <2>4. QED BY <2>1, <2>2, <2>3 DEF LogRows
  <1> HIDE DEF row
  <1>4. table' \in Seq(LogRows) /\ Len(table') = n
    BY <1>0, <1>1, <1>3 DEF ChainInv
  <1>5. \A id \in DOMAIN table : table'[id] = table[id]
    BY <1>0, <1>1, <1>3 DEF ChainInv
  <1>6. table'[n] = row
    BY <1>0, <1>1, <1>3 DEF ChainInv
  <1>7. \A id \in 1 .. n : Audit!PrevOf(id)' = Audit!PrevOf(id)
    <2>1. DOMAIN table = 1 .. n - 1
      BY <1>0, <1>2 DEF ChainInv
    <2>2. \A id \in 1 .. n : id # 1 => id - 1 \in DOMAIN table
      BY <1>2, <2>1
    <2>3. QED
      BY <1>5, <2>2 DEF Audit!PrevOf
  <1>8. \A id \in DOMAIN table : Audit!Follows(id)' <=> Audit!Follows(id)
    <2>1. \A id \in DOMAIN table : id \in 1 .. n
      BY <1>0, <1>2 DEF ChainInv
    <2>2. QED
      BY <1>5, <1>7, <2>1 DEF Audit!Follows, Audit!Digest
  <1>9. n \notin edited /\ table'[n].prev = Audit!PrevOf(n)' /\ Audit!Follows(n)'
    <2>1. n \notin edited
      <3>1. n \notin DOMAIN table BY <1>0 DEF ChainInv
      <3>2. QED BY <3>1 DEF ChainInv
    <2>0. n \in 1 .. n /\ row.prev = prev /\ row.payload = Audit!Original(n)
            /\ row.hash = Audit!Digest(prev, Audit!Original(n))
      BY <1>2 DEF row
    <2> HIDE DEF prev
    <2>2. table'[n].prev = Audit!PrevOf(n)' BY <1>2, <1>6, <1>7, <2>0
    <2>3. table'[n].hash = Audit!Digest(Audit!PrevOf(n)', table'[n].payload)
      BY <1>2, <1>6, <1>7, <2>0
    <2>4. QED BY <2>1, <2>2, <2>3 DEF Audit!Follows
  <1>10. DOMAIN table' = DOMAIN table \cup {n}
    BY <1>0, <1>4 DEF ChainInv
  <1>11. QED
    BY <1>1, <1>4, <1>5, <1>7, <1>8, <1>9, <1>10 DEF ChainInv

\* An edit from outside changes a payload and no hash: the row no longer follows.
LEMMA EditKeepsChain ==
  ASSUME ChainInv, NEW n \in 1 .. MaxEntries, Audit!Edit(n)
  PROVE  ChainInv'
  <1>1. /\ n \in DOMAIN table /\ table[n].payload = Audit!Original(n)
        /\ table' = [table EXCEPT ![n].payload = Edited(n)] /\ edited' = edited \cup {n}
    BY DEF Audit!Edit, Edited
  <1>2. Edited(n) \in Payloads /\ Audit!Original(n) # Edited(n) /\ n \in Nat
    BY DEF Payloads, Edited, Audit!Original
  <1>3. table' \in Seq(LogRows) /\ Len(table') = Len(table) /\ DOMAIN table' = DOMAIN table
    <2>1. table[n] \in LogRows
      BY <1>1 DEF ChainInv
    <2>2. [table[n] EXCEPT !.payload = Edited(n)] \in LogRows
      BY <1>2, <2>1 DEF LogRows
    <2>3. QED
      BY <1>1, <2>2 DEF ChainInv
  <1>4. \A id \in DOMAIN table :
          /\ table'[id].hash = table[id].hash /\ table'[id].prev = table[id].prev
          /\ table'[id].payload = IF id = n THEN Edited(n) ELSE table[id].payload
    BY <1>1 DEF ChainInv, LogRows
  <1>5. n \notin edited
    BY <1>1, <1>2 DEF ChainInv
  <1>6. \A id \in DOMAIN table : Audit!PrevOf(id)' = Audit!PrevOf(id)
    BY <1>4 DEF Audit!PrevOf, ChainInv
  <1>7. QED
    BY <1>1, <1>2, <1>3, <1>4, <1>5, <1>6 DEF ChainInv, Audit!Follows, Audit!Digest

\* The recursive function of hashes is what its equation says: the one that seals every prefix satisfies it.
LEMMA HashesFollow ==
  ASSUME table \in Seq(LogRows)
  PROVE  Audit!Hashes = [id \in 0 .. Len(table) |->
           IF id = 0 THEN <<>> ELSE Audit!Digest(Audit!Hashes[id - 1], table[id].payload)]
  <1> DEFINE seal == [id \in 0 .. Len(table) |-> [k \in 1 .. id |-> table[k].payload]]
             P(h) == h = [id \in 0 .. Len(table) |->
                            IF id = 0 THEN <<>> ELSE Audit!Digest(h[id - 1], table[id].payload)]
  <1>1. P(seal)
    <2>1. seal[0] = <<>>
      OBVIOUS
    <2>2. ASSUME NEW id \in 0 .. Len(table), id # 0
          PROVE  seal[id] = Audit!Digest(seal[id - 1], table[id].payload)
      <3>1. id - 1 \in 0 .. Len(table) /\ id \in Nat /\ id - 1 \in Nat
        BY <2>2
      <3>2. \A k \in 1 .. Len(table) : table[k].payload \in Payloads
        <4>1. \A k \in 1 .. Len(table) : table[k] \in LogRows
          OBVIOUS
        <4>2. QED
          BY <4>1 DEF LogRows
      <3>3. seal[id - 1] = [k \in 1 .. id - 1 |-> table[k].payload]
        BY <3>1
      <3>4. seal[id - 1] \in Seq(Payloads) /\ Len(seal[id - 1]) = id - 1
        BY <3>1, <3>2, <3>3
      <3>5. Append(seal[id - 1], table[id].payload) = [k \in 1 .. id |-> table[k].payload]
        BY <2>2, <3>1, <3>2, <3>3, <3>4
      <3>6. QED
        BY <3>5 DEF Audit!Digest
    <2>3. QED
      BY <2>1, <2>2
  <1>2. Audit!Hashes = CHOOSE h : P(h)
    BY DEF Audit!Hashes
  <1> HIDE DEF P
  <1>3. P(Audit!Hashes)
    BY <1>1, <1>2
  <1> USE DEF P
  <1>4. QED
    BY <1>3

\* What holds of every number at which it holds if it holds below: the least exception would
\* be none.
LEMMA HashesAreDigests ==
  ASSUME table \in Seq(LogRows)
  PROVE  \A id \in 0 .. Len(table) : Audit!Hashes[id] \in Digests
  <1> DEFINE Bad == {id \in 0 .. Len(table) : Audit!Hashes[id] \notin Digests}
  <1> SUFFICES ASSUME Bad # {} PROVE FALSE
    OBVIOUS
  <1>1. PICK n \in Bad : \A id \in Bad : n <= id
    <2>1. Bad \in SUBSET Nat
      OBVIOUS
    <2>2. QED
      BY <2>1, Least
  <1>2. CASE n = 0
    <2>1. Audit!Hashes[0] = <<>>
      BY HashesFollow
    <2>2. <<>> \in Digests
      BY DEF Digests
    <2>3. QED
      BY <1>2, <2>1, <2>2
  <1>3. CASE n # 0
    <2>1. n - 1 \in 0 .. Len(table) /\ n \in 1 .. Len(table) /\ ~(n <= n - 1)
      BY <1>3
    <2>2. Audit!Hashes[n - 1] \in Digests
      BY <1>1, <2>1
    <2>3. table[n].payload \in Payloads
      <3>1. table[n] \in LogRows
        BY <2>1
      <3>2. QED
        BY <3>1 DEF LogRows
    <2>4. Audit!Hashes[n] = Audit!Digest(Audit!Hashes[n - 1], table[n].payload)
      BY <1>3, <2>1, HashesFollow
    <2>5. QED
      BY <2>2, <2>3, <2>4, DigestIsDigest
  <1>4. QED
    BY <1>2, <1>3

\* Sealing the log again makes every row follow, the edited ones too.
LEMMA ResealKeepsChain ==
  ASSUME ChainInv, Audit!Reseal
  PROVE  ChainInv'
  <1>1. table \in Seq(LogRows) /\ Len(table) <= MaxEntries
    BY DEF ChainInv
  <1>2. PICK H : H = Audit!Hashes
    OBVIOUS
  <1>3. /\ table' = [id \in DOMAIN table |->
                       [payload |-> table[id].payload, prev |-> H[id - 1], hash |-> H[id]]]
        /\ edited' = {}
    BY <1>2 DEF Audit!Reseal, Audit!Resealed
  <1>4. \A id \in 0 .. Len(table) : H[id] \in Digests
    BY <1>1, <1>2, HashesAreDigests
  <1>5. /\ H[0] = <<>>
        /\ \A id \in 1 .. Len(table) : H[id] = Audit!Digest(H[id - 1], table[id].payload)
    BY <1>1, <1>2, HashesFollow
  <1>6. DOMAIN table = 1 .. Len(table) /\ Len(table) \in Nat
    BY <1>1
  <1>7. \A id \in 1 .. Len(table) : table[id].payload \in Payloads
    <2>1. \A id \in 1 .. Len(table) : table[id] \in LogRows
      BY <1>1
    <2>2. QED
      BY <2>1 DEF LogRows
  <1>8. \A id \in 1 .. Len(table) : table'[id] \in LogRows
    <2> SUFFICES ASSUME NEW id \in 1 .. Len(table) PROVE table'[id] \in LogRows
      OBVIOUS
    <2>1. id - 1 \in 0 .. Len(table) /\ id \in 0 .. Len(table)
      BY <1>6
    <2>2. H[id - 1] \in Digests /\ H[id] \in Digests
      BY <1>4, <2>1
    <2>3. QED
      BY <1>3, <1>6, <1>7, <2>2 DEF LogRows
  <1>9. table' \in Seq(LogRows) /\ Len(table') = Len(table) /\ DOMAIN table' = DOMAIN table
    BY <1>3, <1>6, <1>8
  <1>10. \A id \in 1 .. Len(table) :
           /\ table'[id].prev = H[id - 1] /\ table'[id].hash = H[id]
           /\ table'[id].payload = table[id].payload
    BY <1>3, <1>6
  <1>11. \A id \in 1 .. Len(table) : Audit!PrevOf(id)' = H[id - 1]
    <2>1. \A id \in 1 .. Len(table) : id # 1 => id - 1 \in 1 .. Len(table)
      BY <1>6
    <2>2. QED
      BY <1>5, <1>10, <2>1 DEF Audit!PrevOf
  <1>12. \A id \in 1 .. Len(table) : Audit!Follows(id)' /\ table'[id].prev = Audit!PrevOf(id)'
    BY <1>5, <1>10, <1>11 DEF Audit!Follows, Audit!Digest
  <1>13. QED
    BY <1>1, <1>3, <1>6, <1>9, <1>12 DEF ChainInv

\* A row that is inserted has a thread that owes its line.
LEMMA InsertKeepsLines ==
  ASSUME AuditInv, NEW t \in Threads, Audit!Insert(t)
  PROVE  LinesInv'
  <1>1. PICK n : n = Len(table) + 1
    OBVIOUS
  <1>2. /\ DOMAIN table = 1 .. n - 1 /\ n \in Nat /\ n \notin DOMAIN table
        /\ None \notin DOMAIN table
        /\ DOMAIN table' = DOMAIN table \cup {n}
    BY <1>1 DEF Audit!Insert, AuditInv, ChainInv
  <1>3. logger' = [logger EXCEPT ![t] = n] /\ text' = text /\ lostLines' = lostLines
    BY <1>1 DEF Audit!Insert
  <1>4. /\ text' \in Seq(Nat) /\ lostLines' \subseteq DOMAIN table'
        /\ \A k \in DOMAIN text' : text'[k] \in DOMAIN table'
    BY <1>2, <1>3 DEF AuditInv, LinesInv
  <1>5. logger' \in [Threads -> DOMAIN table' \cup {None}]
    BY <1>2, <1>3 DEF AuditInv, LinesInv
  <1>6. \A k \in DOMAIN text : text[k] # n
    BY <1>2 DEF AuditInv, LinesInv
  <1>7. \A u \in Threads : logger[u] # n
    BY <1>2 DEF AuditInv, LinesInv
  <1>8. logger[t] = None
    BY DEF Audit!Insert
  <1>9. \A u \in Threads : logger'[u] = IF u = t THEN n ELSE logger[u]
    BY <1>3 DEF AuditInv, LinesInv
  <1>10. \A u \in Threads, k \in DOMAIN text' : text'[k] # logger'[u]
    BY <1>3, <1>6, <1>9 DEF AuditInv, LinesInv
  <1>11. \A u, w \in Threads : logger'[u] = logger'[w] => u = w \/ logger'[u] = None
    BY <1>7, <1>9 DEF AuditInv, LinesInv
  <1>12. ASSUME NEW id \in DOMAIN table'
         PROVE  \/ \E k \in DOMAIN text' : text'[k] = id
                \/ \E u \in Threads : logger'[u] = id
                \/ id \in lostLines'
    <2>1. CASE id = n
      BY <1>9, <2>1
    <2>2. CASE id \in DOMAIN table
      BY <1>2, <1>3, <1>8, <1>9, <2>2 DEF AuditInv, LinesInv
    <2>3. QED
      BY <1>2, <2>1, <2>2
  <1>13. QED
    BY <1>3, <1>4, <1>5, <1>10, <1>11, <1>12 DEF AuditInv, LinesInv

\* The line that is written is the one that was owed.
LEMMA WriteKeepsLines ==
  ASSUME AuditInv, NEW t \in Threads, Audit!WriteLine(t)
  PROVE  LinesInv'
  <1> USE DEF AuditInv
  <1>1. /\ logger[t] # None /\ logger[t] \in DOMAIN table
        /\ text' = Append(text, logger[t]) /\ logger' = [logger EXCEPT ![t] = None]
        /\ table' = table /\ lostLines' = lostLines
    BY DEF Audit!WriteLine, LinesInv
  <1>2. text' \in Seq(Nat) /\ Len(text') = Len(text) + 1 /\ Len(text) \in Nat
    <2>1. DOMAIN table \subseteq Nat
      BY DEF ChainInv
    <2>2. QED
      BY <1>1, <2>1 DEF LinesInv
  <1>3. \A k \in DOMAIN text' : text'[k] = IF k = Len(text) + 1 THEN logger[t] ELSE text[k]
    BY <1>1, <1>2 DEF LinesInv
  <1>4. \A u \in Threads : logger'[u] = IF u = t THEN None ELSE logger[u]
    BY <1>1 DEF LinesInv
  <1>5. DOMAIN text' = DOMAIN text \cup {Len(text) + 1} /\ DOMAIN text = 1 .. Len(text)
    BY <1>2 DEF LinesInv
  <1>50. \A k \in DOMAIN text' : text'[k] \in DOMAIN table
    BY <1>1, <1>2, <1>3, <1>5 DEF LinesInv
  <1>6. logger' \in [Threads -> DOMAIN table \cup {None}]
    BY <1>1 DEF LinesInv
  <1>7. \A k, l \in DOMAIN text' : text'[k] = text'[l] => k = l
    BY <1>2, <1>3, <1>5 DEF LinesInv
  <1>8. None \notin DOMAIN table /\ DOMAIN table \subseteq Nat
    BY DEF ChainInv
  <1>9. \A u \in Threads, k \in DOMAIN text' : text'[k] # logger'[u]
    BY <1>1, <1>2, <1>3, <1>4, <1>5, <1>8 DEF LinesInv
  <1>10. ASSUME NEW id \in DOMAIN table
         PROVE  \/ \E k \in DOMAIN text' : text'[k] = id
                \/ \E u \in Threads : logger'[u] = id
                \/ id \in lostLines
    <2>1. CASE logger[t] = id
      BY <1>2, <1>3, <1>5, <2>1
    <2>2. CASE \E k \in DOMAIN text : text[k] = id
      BY <1>2, <1>3, <1>5, <2>2
    <2>3. CASE \E u \in Threads : logger[u] = id /\ u # t
      BY <1>4, <2>3
    <2>4. CASE id \in lostLines
      BY <2>4
    <2>5. QED
      BY <2>1, <2>2, <2>3, <2>4 DEF LinesInv
  <1>11. QED
    BY <1>1, <1>2, <1>4, <1>50, <1>6, <1>7, <1>9, <1>10 DEF LinesInv

\* The end of the process loses the lines that were owed, and tells which.
LEMMA RestartKeepsLines ==
  ASSUME AuditInv, Audit!Restart
  PROVE  LinesInv'
  <1>1. /\ table' = table /\ text' = text /\ logger' = [t \in Threads |-> None]
        /\ lostLines' = lostLines \cup {logger[t] : t \in {u \in Threads : logger[u] # None}}
    BY DEF Audit!Restart
  <1>2. None \notin DOMAIN table /\ DOMAIN table \subseteq Nat
    BY DEF AuditInv, ChainInv
  <1>3. \A k \in DOMAIN text : text[k] # None
    BY <1>2 DEF AuditInv, LinesInv
  <1>4. QED
    BY <1>1, <1>2, <1>3 DEF AuditInv, LinesInv

\* Every step keeps the invariant of the log.
LEMMA AuditInvStep == AuditInv /\ [Audit!Next]_(Audit!auditVars) => AuditInv'
  <1> SUFFICES ASSUME AuditInv, [Audit!Next]_(Audit!auditVars) PROVE AuditInv'
    OBVIOUS
  <1>1. ASSUME NEW t \in Threads, Audit!Insert(t) PROVE AuditInv'
    BY <1>1, InsertKeepsChain, InsertKeepsLines DEF AuditInv
  <1>2. ASSUME NEW t \in Threads, Audit!WriteLine(t) PROVE AuditInv'
    <2>1. ChainInv'
      BY <1>2 DEF Audit!WriteLine, AuditInv, ChainInv, Audit!PrevOf, Audit!Follows
    <2>2. QED
      BY <1>2, <2>1, WriteKeepsLines DEF AuditInv
  <1>3. ASSUME NEW id \in 1 .. MaxEntries, Audit!Edit(id) PROVE AuditInv'
    <2>1. DOMAIN table' = DOMAIN table
      BY <1>3 DEF Audit!Edit, AuditInv, ChainInv
    <2>2. LinesInv'
      BY <1>3, <2>1 DEF Audit!Edit, AuditInv, LinesInv
    <2>3. QED
      BY <1>3, <2>2, EditKeepsChain DEF AuditInv
  <1>4. CASE Audit!Reseal
    <2>1. DOMAIN table' = DOMAIN table
      BY <1>4 DEF Audit!Reseal, Audit!Resealed
    <2>2. LinesInv'
      BY <1>4, <2>1 DEF Audit!Reseal, AuditInv, LinesInv
    <2>3. QED
      BY <1>4, <2>2, ResealKeepsChain DEF AuditInv
  <1>5. CASE Audit!Restart
    <2>1. ChainInv'
      BY <1>5 DEF Audit!Restart, AuditInv, ChainInv, Audit!PrevOf, Audit!Follows
    <2>2. QED
      BY <1>5, <2>1, RestartKeepsLines DEF AuditInv
  <1>6. CASE UNCHANGED Audit!auditVars
    BY <1>6 DEF Audit!auditVars, AuditInv, ChainInv, LinesInv, Audit!PrevOf, Audit!Follows
  <1>7. QED
    BY <1>1, <1>2, <1>3, <1>4, <1>5, <1>6 DEF Audit!Next

\* The invariant says what LogTellsEdits says.
LEMMA AuditInvTells == AuditInv => LogTellsEdits
  <1> SUFFICES ASSUME AuditInv PROVE LogTellsEdits
    OBVIOUS
  <1>1. Audit!TypeOK /\ Audit!LinesMatchRows
    BY DEF AuditInv, ChainInv, LinesInv, Audit!TypeOK, Audit!LinesMatchRows
  <1>2. DOMAIN table \in SUBSET Nat /\ edited \subseteq DOMAIN table
    BY DEF AuditInv, ChainInv
  <1>3. \A id \in DOMAIN table : Audit!Follows(id) <=> id \notin edited
    <2> SUFFICES ASSUME NEW id \in edited PROVE ~Audit!Follows(id)
      BY DEF AuditInv, ChainInv
    <2>1. PICK d : d = Audit!PrevOf(id) /\ d \in Digests
      BY <1>2, PrevIsDigest DEF AuditInv, ChainInv
    <2>2. Audit!Original(id) \in Payloads /\ Edited(id) \in Payloads /\ Audit!Original(id) # Edited(id)
      BY <1>2 DEF Payloads, Audit!Original, Edited
    <2>3. Append(d, Audit!Original(id)) # Append(d, Edited(id))
      BY <2>1, <2>2 DEF Digests
    <2>4. QED
      BY <1>2, <2>1, <2>3 DEF AuditInv, ChainInv, Audit!Follows, Audit!Digest
  <1>4. ASSUME edited = {} PROVE Audit!ChainTellsEdits
    BY <1>3, <1>4 DEF Audit!ChainTellsEdits, Audit!FailedId
  <1>5. ASSUME edited # {} PROVE Audit!ChainTellsEdits
    <2>1. PICK n \in edited : \A k \in edited : n <= k
      BY <1>2, <1>5, Least
    <2>2. (CHOOSE id \in edited : \A k \in edited : id <= k) = n
      <3>1. \A id \in edited : (\A k \in edited : id <= k) => id = n
        BY <1>2, <2>1
      <3>2. QED
        BY <2>1, <3>1
    <2>3. ~Audit!Follows(n) /\ \A k \in 1 .. n - 1 : Audit!Follows(k)
      <3>1. \A k \in 1 .. n - 1 : k \in DOMAIN table /\ k \notin edited
        BY <1>2, <2>1 DEF AuditInv, ChainInv
      <3>2. QED
        BY <1>2, <1>3, <2>1, <3>1
    <2>4. \A id \in DOMAIN table :
            ~Audit!Follows(id) /\ (\A k \in 1 .. id - 1 : Audit!Follows(k)) => id = n
      <3> SUFFICES ASSUME NEW id \in DOMAIN table, ~Audit!Follows(id),
                          \A k \in 1 .. id - 1 : Audit!Follows(k)
                   PROVE  id = n
        OBVIOUS
      <3>1. n <= id /\ n \in 1 .. id /\ n \in Nat /\ id \in Nat
        BY <1>2, <1>3, <2>1 DEF AuditInv, ChainInv
      <3>2. n \notin 1 .. id - 1
        BY <2>3
      <3>3. QED
        BY <3>1, <3>2
    <2>5. (CHOOSE id \in DOMAIN table : ~Audit!Follows(id) /\ \A k \in 1 .. id - 1 : Audit!Follows(k)) = n
      BY <1>2, <2>1, <2>3, <2>4
    <2>6. ~ \A id \in DOMAIN table : Audit!Follows(id)
      BY <1>2, <2>1, <2>3
    <2>7. QED
      BY <1>5, <2>2, <2>5, <2>6 DEF Audit!ChainTellsEdits, Audit!FailedId
  <1>6. QED
    BY <1>1, <1>4, <1>5 DEF LogTellsEdits

\* Whatever threads log, edit, reseal and restart: the check of the chain names the oldest row
\* that was changed since it was sealed, and every row has its one line
\* (insert_action_log, verify_action_log_chain, reseal_action_log_chain).
THEOREM EditsAreTold == RequestsSpec => []LogTellsEdits
  <1>1. RequestsInit => AuditInv
    BY DEF RequestsInit, Audit!Init, AuditInv, ChainInv, LinesInv
  <1>2. AuditInv /\ [RequestsNext]_requestsVars => AuditInv'
    <2>1. [RequestsNext]_requestsVars => [Audit!Next]_(Audit!auditVars)
      BY DEF RequestsNext, requestsVars, auditVars, Audit!auditVars
    <2>2. QED
      BY <2>1, AuditInvStep
  <1>3. QED
    BY <1>1, <1>2, AuditInvTells, PTL DEF RequestsSpec

-----------------------------------------------------------------------------
(* File operations: what the proofs rest on.                               *)

Args == Operations!Rows \cup Nat \cup {None}
Coms == [Threads -> Operations!Commits \cup {None}]
Ths  == [Threads -> [pc : Operations!Points, arg : Args]]

Undoing(t) == th[t].pc \in {"popped", "failed"}

\* The state has its type.
FilesTypes ==
  /\ scene \in {"files", "batch"}
  /\ readOnly \in BOOLEAN
  /\ rows \in Seq(Operations!Rows) /\ Len(rows) <= MaxRows
  /\ request # None => request.src \in Paths /\ request.dst \in Paths
  /\ th \in Ths
  /\ com \in Coms
  /\ plan \in Seq(Operations!Steps)
  /\ added \in 0 .. MaxSteps
  /\ outside \in 0 .. MaxOutside

\* Items are at places, and no two at one path.
Located ==
  /\ loc \in [Operations!Items -> Operations!Places]
  /\ \A i, j \in Operations!Items : loc[i] = loc[j] => i = j \/ loc[i] \notin Paths

\* A thread is where what it runs brought it.
Placed(t) ==
  /\ th[t].pc = "changed" => th[t].arg \in Operations!Rows /\ ~th[t].arg.undone
  /\ Undoing(t) => th[t].arg \in DOMAIN rows
  /\ th[t].pc = "idle" => com[t] = None
  /\ th[t].pc \in {"step", "count", "unwind"} => com[t] # None
  /\ com[t] # None =>
       /\ th[t].pc \in {"changed", "step", "count"} => ~com[t].unwinding
       /\ th[t].pc = "unwind" => com[t].unwinding
       /\ th[t].pc = "step" \/ com[t].todo # <<>>

ThreadInv == \A t \in Threads : Placed(t)

\* The cardinality the operations count by is that of FiniteSets.
LEMMA CardinalityIs ==
  ASSUME NEW S
  PROVE  Operations!Cardinality(S) = Cardinality(S)
  BY DEF Operations!Cardinality, Cardinality

\* A set of numbers up to n that is not empty has a greatest one.
LEMMA Greatest ==
  ASSUME NEW n \in Nat, NEW T \in SUBSET (1 .. n), T # {}
  PROVE  \E x \in T : \A y \in T : y <= x
  <1> DEFINE S == {n - x : x \in T}
  <1>1. S \in SUBSET Nat /\ S # {}
    <2>1. \A x \in T : n - x \in Nat
      OBVIOUS
    <2>2. QED
      BY <2>1
  <1>2. PICK m \in S : \A y \in S : m <= y
    BY <1>1, Least
  <1>3. PICK x \in T : m = n - x
    OBVIOUS
  <1>4. ASSUME NEW y \in T PROVE y <= x
    <2>1. m <= n - y
      BY <1>2
    <2>2. QED
      BY <1>3, <2>1
  <1>5. QED
    BY <1>4

\* The rows that wait can be counted, and the newest is one of them.
LEMMA PendingIs ==
  ASSUME rows \in Seq(Operations!Rows)
  PROVE  /\ Operations!Pending \in SUBSET (1 .. Len(rows)) /\ Len(rows) \in Nat
         /\ IsFiniteSet(Operations!Pending) /\ Cardinality(Operations!Pending) \in Nat
         /\ Operations!Pending # {} =>
              /\ Operations!Newest \in Operations!Pending
              /\ \A s \in Operations!Pending : s <= Operations!Newest
  <1>1. Operations!Pending \in SUBSET (1 .. Len(rows)) /\ Len(rows) \in Nat
    BY DEF Operations!Pending
  <1>2. IsFiniteSet(Operations!Pending) /\ Cardinality(Operations!Pending) \in Nat
    <2>1. IsFiniteSet(1 .. Len(rows))
      BY <1>1, FS_Interval
    <2>2. IsFiniteSet(Operations!Pending)
      BY <1>1, <2>1, FS_Subset
    <2>3. QED
      BY <2>2, FS_CardinalityType
  <1>3. ASSUME Operations!Pending # {}
        PROVE  /\ Operations!Newest \in Operations!Pending
               /\ \A s \in Operations!Pending : s <= Operations!Newest
    BY <1>1, <1>3, Greatest DEF Operations!Newest
  <1>4. QED
    BY <1>1, <1>2, <1>3

\* Two records of one commit differ in nothing the batch counts by.
SameCounts(a, b) ==
  /\ a.todo = b.todo /\ a.before = b.before /\ a.created = b.created /\ a.mine = b.mine
  /\ a.undone = b.undone

\* Putting other batches aside says nothing about what they count.
LEMMA AloneIs ==
  ASSUME NEW c \in Coms, NEW t \in Threads
  PROVE  /\ Operations!Alone(t, c) \in Coms
         /\ Operations!Alone(t, c)[t] = c[t]
         /\ \A u \in Threads \ {t} :
              /\ c[u] = None => Operations!Alone(t, c)[u] = None
              /\ c[u] # None =>
                   /\ Operations!Alone(t, c)[u] # None
                   /\ ~Operations!Alone(t, c)[u].alone
                   /\ SameCounts(Operations!Alone(t, c)[u], c[u])
                   /\ Operations!Alone(t, c)[u].unwinding = c[u].unwinding
                   /\ Operations!Alone(t, c)[u].left = c[u].left
  <1>1. \A u \in Threads : c[u] # None => [c[u] EXCEPT !.alone = FALSE] \in Operations!Commits
    BY DEF Coms, Operations!Commits
  <1>2. /\ Operations!Alone(t, c) \in Coms
        /\ \A u \in Threads : Operations!Alone(t, c)[u] =
             IF u = t \/ c[u] = None THEN c[u] ELSE [c[u] EXCEPT !.alone = FALSE]
    BY <1>1 DEF Operations!Alone, Coms
  <1>3. ASSUME NEW d \in Operations!Commits
        PROVE  LET e == [d EXCEPT !.alone = FALSE] IN
                 e # None /\ ~e.alone /\ SameCounts(e, d) /\ e.unwinding = d.unwinding /\ e.left = d.left
    <2>1. [d EXCEPT !.alone = FALSE] \in Operations!Commits
      BY DEF Operations!Commits
    <2>2. QED
      BY <2>1, FilesAssumption DEF SameCounts, Operations!Commits
  <1>4. \A u \in Threads : c[u] # None => c[u] \in Operations!Commits
    BY DEF Coms
  <1>5. QED
    BY <1>2, <1>3, <1>4

\* The types of the fields of a commit.
LEMMA CommitTypes ==
  ASSUME NEW d \in Operations!Commits
  PROVE  /\ d.before \in Int /\ d.created \in Int /\ d.left \in Int
         /\ d.mine \in SUBSET (1 .. MaxRows) /\ d.undone \in SUBSET (1 .. MaxRows)
         /\ d.todo \in Seq(Operations!Steps) /\ d.unwinding \in BOOLEAN /\ d.alone \in BOOLEAN
  BY DEF Operations!Commits

\* A commit that turns to unwinding is a commit.
LEMMA CommitStays ==
  ASSUME NEW d \in Operations!Commits, NEW n \in Int
  PROVE  /\ [d EXCEPT !.left = n] \in Operations!Commits
         /\ [d EXCEPT !.unwinding = TRUE, !.left = n] \in Operations!Commits
  <1>1. [d EXCEPT !.left = n] \in Operations!Commits
    BY DEF Operations!Commits
  <1>2. [d EXCEPT !.unwinding = TRUE] \in Operations!Commits
    BY DEF Operations!Commits
  <1>3. \A e \in Operations!Commits : [e EXCEPT !.left = n] \in Operations!Commits
    BY DEF Operations!Commits
  <1>4. QED
    BY <1>1, <1>2, <1>3

\* Where a thread goes after an operation: to its caller, on with its batch, or to the unwinding of it.
LEMMA ReturnIs ==
  ASSUME NEW c \in Coms, NEW t \in Threads, NEW ok \in BOOLEAN, th \in Ths,
         Operations!Return(t, ok, c)
  PROVE  /\ com' \in Coms /\ th' \in Ths
         /\ \A u \in Threads \ {t} : com'[u] = c[u] /\ th'[u] = th[u]
         /\ c[t] = None => com'[t] = None /\ th'[t].pc = "idle"
         /\ c[t] # None =>
              /\ com'[t] # None /\ SameCounts(com'[t], c[t]) /\ com'[t].alone = c[t].alone
              /\ c[t].unwinding =>
                   th'[t].pc = "unwind" /\ com'[t].unwinding /\ com'[t].left = c[t].left - 1
              /\ ~c[t].unwinding /\ ok => th'[t].pc = "count" /\ com' = c
              /\ ~c[t].unwinding /\ ~ok =>
                   th'[t].pc = "unwind" /\ com'[t].unwinding /\ com'[t].left = c[t].created
  <1>1. /\ c[t] # None => c[t] \in Operations!Commits
        /\ None \in Args
        /\ \A x \in {"idle", "unwind", "count"} : [pc |-> x, arg |-> None] \in [pc : Operations!Points, arg : Args]
    BY DEF Coms, Args, Operations!Points
  <1>2. c[t] # None =>
          /\ [c[t] EXCEPT !.left = @ - 1] \in Operations!Commits
          /\ [c[t] EXCEPT !.unwinding = TRUE, !.left = c[t].created] \in Operations!Commits
    <2>1. c[t] # None => c[t].left - 1 \in Int /\ c[t].created \in Int
      BY <1>1, CommitTypes
    <2>2. QED
      BY <1>1, <2>1, CommitStays
  <1>3. CASE c[t] = None
    BY <1>1, <1>3 DEF Operations!Return, Operations!Goes, Coms, Ths
  <1>4. CASE c[t] # None /\ c[t].unwinding
    <2>1. /\ th' = [th EXCEPT ![t] = [pc |-> "unwind", arg |-> None]]
          /\ com' = [c EXCEPT ![t] = [c[t] EXCEPT !.left = @ - 1]]
      BY <1>4 DEF Operations!Return, Operations!Goes
    <2>2. com' \in Coms /\ th' \in Ths
      BY <1>1, <1>2, <1>4, <2>1 DEF Coms, Ths
    <2>3. com'[t] = [c[t] EXCEPT !.left = @ - 1] /\ th'[t].pc = "unwind"
      BY <2>1 DEF Coms, Ths
    <2>4. SameCounts(com'[t], c[t]) /\ com'[t].alone = c[t].alone
           /\ com'[t].unwinding /\ com'[t].left = c[t].left - 1 /\ com'[t] # None
      BY <1>1, <1>2, <1>4, <2>3, FilesAssumption DEF SameCounts, Operations!Commits
    <2>5. QED
      BY <1>4, <2>1, <2>2, <2>3, <2>4 DEF Coms, Ths
  <1>5. CASE c[t] # None /\ ~c[t].unwinding /\ ok
    BY <1>1, <1>2, <1>5 DEF Operations!Return, Operations!Goes, Coms, Ths, SameCounts
  <1>6. CASE c[t] # None /\ ~c[t].unwinding /\ ~ok
    <2>1. /\ th' = [th EXCEPT ![t] = [pc |-> "unwind", arg |-> None]]
          /\ com' = [c EXCEPT ![t] = [c[t] EXCEPT !.unwinding = TRUE, !.left = c[t].created]]
      BY <1>6 DEF Operations!Return, Operations!Goes, Coms
    <2>2. com' \in Coms /\ th' \in Ths
      BY <1>1, <1>2, <1>6, <2>1 DEF Coms, Ths
    <2>3. /\ com'[t] = [c[t] EXCEPT !.unwinding = TRUE, !.left = c[t].created]
          /\ th'[t].pc = "unwind"
      BY <2>1 DEF Coms, Ths
    <2>4. SameCounts(com'[t], c[t]) /\ com'[t].alone = c[t].alone
           /\ com'[t].unwinding /\ com'[t].left = c[t].created /\ com'[t] # None
      BY <1>1, <1>2, <1>6, <2>3, FilesAssumption DEF SameCounts, Operations!Commits
    <2>5. QED
      BY <1>6, <2>1, <2>2, <2>3, <2>4 DEF Coms, Ths
  <1>7. QED
    BY <1>3, <1>4, <1>5, <1>6

\* An operation that returns says nothing about other threads.
LEMMA ReturnLeavesOthers ==
  ASSUME FilesTypes, NEW t \in Threads, NEW ok \in BOOLEAN, Operations!Return(t, ok, com)
  PROVE  \A u \in Threads \ {t} : th'[u] = th[u] /\ com'[u] = com[u]
  <1>1. com \in Coms /\ th \in Ths
    BY DEF FilesTypes
  <1>2. \A u \in Threads \ {t} : com'[u] = com[u] /\ th'[u] = th[u]
    BY <1>1, ReturnIs
  <1>3. QED
    BY <1>2

\* What is at a path, if anything, is an item that is there.
LEMMA AtIs ==
  ASSUME NEW x
  PROVE  /\ Operations!At(x) = None => \A i \in Operations!Items : loc[i] # x
         /\ Operations!At(x) # None => Operations!At(x) \in Operations!Items /\ loc[Operations!At(x)] = x
  <1>1. CASE \E i \in Operations!Items : loc[i] = x
    BY <1>1, FilesAssumption DEF Operations!At
  <1>2. CASE ~ \E i \in Operations!Items : loc[i] = x
    BY <1>2 DEF Operations!At
  <1>3. QED
    BY <1>1, <1>2

\* Moving an item keeps one item at a path, and brings nothing into the rollback folder.
LEMMA MovedIs ==
  ASSUME Located, NEW i \in Operations!Items, NEW x \in Paths
  PROVE  /\ Operations!Moved(i, x) \in [Operations!Items -> Operations!Places]
         /\ \A j, k \in Operations!Items :
              Operations!Moved(i, x)[j] = Operations!Moved(i, x)[k] => j = k \/ Operations!Moved(i, x)[j] \notin Paths
         /\ \A j \in Operations!Items : Operations!Moved(i, x)[j] = Trash => j # i /\ loc[j] = Trash
  <1>1. PICK there : there = Operations!At(x)
    OBVIOUS
  <1>2. /\ there = None => \A j \in Operations!Items : loc[j] # x
        /\ there # None => there \in Operations!Items /\ loc[there] = x
    BY <1>1, AtIs
  <1>3. /\ x \in Operations!Places /\ Gone \in Operations!Places /\ Dirs \subseteq Operations!Places
        /\ Dirs \subseteq Operations!Items
        /\ x \notin {Trash, Gone} /\ Gone \notin Paths \cup {Trash} /\ Trash \notin Dirs
        /\ \A d \in Dirs : d \notin Paths
    BY FilesAssumption DEF Operations!Places, Operations!Items
  <1>4. CASE there \in Dirs \ {i}
    <2>1. Operations!Moved(i, x) = [loc EXCEPT ![i] = there]
      BY <1>1, <1>4 DEF Operations!Moved
    <2>2. QED
      BY <1>3, <1>4, <2>1 DEF Located
  <1>5. CASE there \notin Dirs \ {i}
    <2>1. Operations!Moved(i, x) =
            [j \in Operations!Items |-> IF j = i THEN x ELSE IF j = there THEN Gone ELSE loc[j]]
      BY <1>1, <1>5 DEF Operations!Moved
    <2>2. \A j \in Operations!Items : j # there => loc[j] # x
      BY <1>2 DEF Located
    <2>3. QED
      BY <1>3, <2>1, <2>2 DEF Located
  <1>6. QED
    BY <1>4, <1>5

\* Making a directory puts one that was not there at a free path, or fails.
LEMMA MakeIs ==
  ASSUME FilesTypes, Located, NEW t \in Threads, NEW x \in Paths, Operations!MakeDirectory(t, x)
  PROVE  /\ com' \in Coms /\ th' \in Ths
         /\ \/ Operations!Return(t, FALSE, com) /\ loc' = loc
            \/ /\ com' = com /\ \A u \in Threads \ {t} : th'[u] = th[u]
               /\ th'[t].pc = "changed" /\ th'[t].arg \in Operations!Rows /\ ~th'[t].arg.undone
               /\ th'[t].arg.from \in Paths
               /\ Located'
               /\ \A i \in Operations!Items : loc'[i] = Trash => loc[i] = Trash
  <1>1. CASE readOnly \/ Operations!At(x) # None
    BY <1>1, ReturnIs DEF Operations!MakeDirectory, FilesTypes
  <1>2. CASE ~(readOnly \/ Operations!At(x) # None)
    <2> DEFINE row == [kind |-> "remove", from |-> x, to |-> x, undone |-> FALSE]
    <2>1. PICK d \in Dirs : loc[d] = Unborn /\ loc' = [loc EXCEPT ![d] = x]
      BY <1>2 DEF Operations!MakeDirectory
    <2>2. com' = com /\ th' = [th EXCEPT ![t] = [pc |-> "changed", arg |-> row]]
      BY <1>2 DEF Operations!MakeDirectory, Operations!Goes
    <2>3. row \in Operations!Rows /\ [pc |-> "changed", arg |-> row] \in [pc : Operations!Points, arg : Args]
      BY DEF Operations!Rows, Args, Operations!Points
    <2>4. Located' /\ \A i \in Operations!Items : loc'[i] = Trash => loc[i] = Trash
      <3>1. \A i \in Operations!Items : loc[i] # x
        BY <1>2, AtIs
      <3>2. x # Trash /\ x \in Operations!Places /\ d \in Operations!Items
        BY FilesAssumption DEF Operations!Places, Operations!Items
      <3>3. QED
        BY <2>1, <3>1, <3>2 DEF Located
    <2>5. com' \in Coms /\ th' \in Ths /\ th'[t] = [pc |-> "changed", arg |-> row]
          /\ \A u \in Threads \ {t} : th'[u] = th[u]
      BY <2>2, <2>3 DEF FilesTypes, Ths
    <2>6. row.from \in Paths /\ ~row.undone
      OBVIOUS
    <2> HIDE DEF row
    <2>7. th'[t].pc = "changed" /\ th'[t].arg = row
      BY <2>5
    <2>8. QED
      BY <2>2, <2>3, <2>4, <2>5, <2>6, <2>7
  <1>3. QED
    BY <1>1, <1>2

\* Row n is marked, or no longer, and nothing else of the store changes.
Marked(n, value) ==
  /\ rows' \in Seq(Operations!Rows) /\ Len(rows') = Len(rows)
  /\ \A r \in DOMAIN rows :
       rows'[r].from = rows[r].from /\ (rows'[r].undone <=> IF r = n THEN value ELSE rows[r].undone)

\* Other threads are where they were; their batches no longer have the store for themselves.
OthersAside(t) ==
  \A u \in Threads \ {t} :
    /\ th'[u] = th[u]
    /\ com[u] = None => com'[u] = None
    /\ com[u] # None =>
         /\ com'[u] # None /\ ~com'[u].alone /\ SameCounts(com'[u], com[u])
         /\ com'[u].unwinding = com[u].unwinding

\* Thread t has taken the newest row n.
Taken(t, n) ==
  /\ n \in Operations!Pending /\ \A s \in Operations!Pending : s <= n
  /\ Marked(n, TRUE) /\ OthersAside(t)
  /\ th'[t].pc = "popped" /\ th'[t].arg = n
  /\ com[t] = None => com'[t] = None
  /\ com[t] # None =>
       /\ com'[t] # None
       /\ com'[t].todo = com[t].todo /\ com'[t].before = com[t].before
       /\ com'[t].created = com[t].created /\ com'[t].mine = com[t].mine
       /\ com'[t].unwinding = com[t].unwinding /\ com'[t].left = com[t].left
       /\ com'[t].undone = com[t].undone \cup {n}
       /\ com'[t].alone => com[t].alone /\ com[t].unwinding

\* Marking row n changes nothing else, and takes it out of, or back among, those that wait.
LEMMA MarkIs ==
  ASSUME rows \in Seq(Operations!Rows), NEW n \in DOMAIN rows, NEW value \in BOOLEAN,
         rows' = [rows EXCEPT ![n].undone = value]
  PROVE  /\ Marked(n, value) /\ DOMAIN rows' = DOMAIN rows
         /\ Operations!Pending' = IF value THEN Operations!Pending \ {n} ELSE Operations!Pending \cup {n}
  <1>1. \A r \in DOMAIN rows : rows[r] \in Operations!Rows
    OBVIOUS
  <1>2. [rows[n] EXCEPT !.undone = value] \in Operations!Rows
    BY <1>1 DEF Operations!Rows
  <1>3. rows' \in Seq(Operations!Rows) /\ Len(rows') = Len(rows) /\ DOMAIN rows' = DOMAIN rows
    BY <1>2
  <1>4. \A r \in DOMAIN rows :
          rows'[r].from = rows[r].from /\ (rows'[r].undone <=> IF r = n THEN value ELSE rows[r].undone)
    BY <1>1 DEF Operations!Rows
  <1>5. QED
    BY <1>3, <1>4 DEF Marked, Operations!Pending

\* The newest row is taken, or there is none.
LEMMA PopIs ==
  ASSUME FilesTypes, NEW t \in Threads, Operations!PopRow(t)
  PROVE  /\ com' \in Coms /\ th' \in Ths
         /\ \/ /\ Operations!Pending = {} /\ rows' = rows /\ Operations!Return(t, FALSE, com)
            \/ \E n \in DOMAIN rows : Taken(t, n) /\ Operations!Pending' = Operations!Pending \ {n}
  <1>1. CASE Operations!Pending = {}
    BY <1>1, ReturnIs DEF Operations!PopRow, FilesTypes
  <1>2. CASE Operations!Pending # {}
    <2>1. PICK n : n = Operations!Newest
      OBVIOUS
    <2>2. /\ n \in Operations!Pending /\ \A s \in Operations!Pending : s <= n
          /\ n \in DOMAIN rows /\ n \in 1 .. MaxRows
      BY <1>2, <2>1, PendingIs, FilesAssumption DEF FilesTypes, Operations!Pending
    <2>3. PICK c \in Coms : c = Operations!Alone(t, com)
      BY AloneIs DEF FilesTypes
    <2>4. /\ rows' = [rows EXCEPT ![n].undone = TRUE]
          /\ th' = [th EXCEPT ![t] = [pc |-> "popped", arg |-> n]]
          /\ com' = IF com[t] = None THEN c
                    ELSE [c EXCEPT ![t].undone = @ \cup {n}, ![t].alone = @ /\ com[t].unwinding]
      BY <1>2, <2>1, <2>3 DEF Operations!PopRow, Operations!Goes
    <2>5. /\ c[t] = com[t]
          /\ \A u \in Threads \ {t} :
               /\ com[u] = None => c[u] = None
               /\ com[u] # None =>
                    c[u] # None /\ ~c[u].alone /\ SameCounts(c[u], com[u]) /\ c[u].unwinding = com[u].unwinding
      BY <2>3, AloneIs DEF FilesTypes
    <2>6. th' \in Ths /\ th'[t].pc = "popped" /\ th'[t].arg = n /\ \A u \in Threads \ {t} : th'[u] = th[u]
      BY <2>2, <2>4 DEF FilesTypes, Ths, Args, Operations!Points
    <2>7. CASE com[t] = None
      BY <2>2, <2>4, <2>5, <2>6, <2>7, MarkIs DEF Taken, OthersAside, FilesTypes
    <2>8. CASE com[t] # None
      <3> DEFINE d == [com[t] EXCEPT !.undone = @ \cup {n}, !.alone = @ /\ com[t].unwinding]
      <3>1. com[t] \in Operations!Commits
        BY <2>8 DEF FilesTypes, Coms
      <3>2. /\ d \in Operations!Commits /\ d.todo = com[t].todo /\ d.before = com[t].before
            /\ d.created = com[t].created /\ d.mine = com[t].mine /\ d.unwinding = com[t].unwinding
            /\ d.left = com[t].left /\ d.undone = com[t].undone \cup {n}
            /\ d.alone = (com[t].alone /\ com[t].unwinding)
        <4>1. [com[t] EXCEPT !.undone = @ \cup {n}] \in Operations!Commits
          BY <2>2, <3>1 DEF Operations!Commits
        <4>2. d \in Operations!Commits
          BY <3>1, <4>1 DEF Operations!Commits
        <4>3. QED
          BY <3>1, <4>2 DEF Operations!Commits
      <3>3. com' = [c EXCEPT ![t] = d]
        BY <2>4, <2>5, <2>8 DEF Coms
      <3> HIDE DEF d
      <3>4. com' \in Coms /\ com'[t] = d /\ \A u \in Threads \ {t} : com'[u] = c[u]
        BY <3>2, <3>3 DEF Coms
      <3>5. d # None
        BY <3>2, FilesAssumption
      <3>6. OthersAside(t)
        BY <2>5, <2>6, <3>4 DEF OthersAside
      <3>7. Marked(n, TRUE) /\ Operations!Pending' = Operations!Pending \ {n}
        BY <2>2, <2>4, MarkIs DEF FilesTypes
      <3>8. QED
        BY <2>2, <2>6, <2>8, <3>2, <3>4, <3>5, <3>6, <3>7 DEF Taken
    <2>9. QED
      BY <2>7, <2>8
  <1>3. QED
    BY <1>1, <1>2

\* A thread after its commit returned from c, a copy of com with other batches put aside.
LEMMA AsideReturns ==
  ASSUME FilesTypes, NEW t \in Threads, NEW ok \in BOOLEAN, NEW c \in Coms,
         \A u \in Threads \ {t} : c[u] = Operations!Alone(t, com)[u],
         Operations!Return(t, ok, c)
  PROVE  OthersAside(t)
  <1>1. \A u \in Threads \ {t} : com'[u] = c[u] /\ th'[u] = th[u]
    BY ReturnIs DEF FilesTypes
  <1>2. \A u \in Threads \ {t} :
          /\ com[u] = None => c[u] = None
          /\ com[u] # None =>
               c[u] # None /\ ~c[u].alone /\ SameCounts(c[u], com[u]) /\ c[u].unwinding = com[u].unwinding
    BY AloneIs DEF FilesTypes
  <1>3. QED
    BY <1>1, <1>2 DEF OthersAside

\* Recording a row: it waits, it is the newest, and the batch it belongs to knows it.
LEMMA PushIs ==
  ASSUME FilesTypes, ThreadInv, NEW t \in Threads, Operations!PushRow(t)
  PROVE  LET n == Len(rows) + 1 IN
         /\ com' \in Coms /\ th' \in Ths /\ OthersAside(t)
         /\ rows' = Append(rows, th[t].arg) /\ rows' \in Seq(Operations!Rows) /\ Len(rows') <= MaxRows
         /\ Operations!Pending' = Operations!Pending \cup {n}
         /\ com[t] = None => com'[t] = None /\ th'[t].pc = "idle"
         /\ com[t] # None =>
              /\ com'[t] # None /\ th'[t].pc = "count" /\ ~com'[t].unwinding
              /\ com'[t].todo = com[t].todo /\ com'[t].before = com[t].before
              /\ com'[t].created = com[t].created /\ com'[t].mine = com[t].mine \cup {n}
              /\ com'[t].undone = com[t].undone /\ com'[t].alone = com[t].alone
  <1>1. PICK n : n = Len(rows) + 1
    OBVIOUS
  <1>2. /\ th[t].pc = "changed" /\ rows' = Append(rows, th[t].arg) /\ Len(rows) < MaxRows
        /\ th[t].arg \in Operations!Rows /\ ~th[t].arg.undone
        /\ n \in 1 .. MaxRows
    BY <1>1, FilesAssumption DEF Operations!PushRow, ThreadInv, Placed, FilesTypes
  <1>3. rows' \in Seq(Operations!Rows) /\ Len(rows') <= MaxRows
    <2>1. rows' \in Seq(Operations!Rows) /\ Len(rows') = n
      BY <1>1, <1>2 DEF FilesTypes
    <2>2. QED
      BY <1>2, <2>1, FilesAssumption
  <1>4. Operations!Pending' = Operations!Pending \cup {n}
    <2>1. /\ DOMAIN rows' = DOMAIN rows \cup {n} /\ rows'[n] = th[t].arg
          /\ \A r \in DOMAIN rows : rows'[r] = rows[r]
      BY <1>1, <1>2 DEF FilesTypes
    <2>2. QED
      BY <1>2, <2>1 DEF Operations!Pending
  <1>5. PICK a \in Coms : a = Operations!Alone(t, com)
    BY AloneIs DEF FilesTypes
  <1>6. a[t] = com[t]
    BY <1>5, AloneIs DEF FilesTypes
  <1>7. CASE com[t] = None
    <2>1. Operations!Return(t, TRUE, a)
      BY <1>5, <1>7 DEF Operations!PushRow
    <2>2. OthersAside(t)
      BY <1>5, <2>1, AsideReturns
    <2>3. com' \in Coms /\ th' \in Ths /\ com'[t] = None /\ th'[t].pc = "idle"
      BY <1>6, <1>7, <2>1, ReturnIs DEF FilesTypes
    <2>4. QED
      BY <1>1, <1>2, <1>3, <1>4, <1>7, <2>2, <2>3
  <1>8. CASE com[t] # None
    <2> DEFINE d == [com[t] EXCEPT !.mine = @ \cup {n}]
               c == [a EXCEPT ![t] = d]
    <2>1. com[t] \in Operations!Commits /\ ~com[t].unwinding
      BY <1>2, <1>8 DEF FilesTypes, Coms, ThreadInv, Placed
    <2>2. d \in Operations!Commits
      BY <1>2, <2>1 DEF Operations!Commits
    <2>3. /\ d.todo = com[t].todo /\ d.before = com[t].before /\ d.created = com[t].created
          /\ d.mine = com[t].mine \cup {n} /\ d.undone = com[t].undone /\ d.alone = com[t].alone
          /\ ~d.unwinding /\ d # None
      BY <2>1, <2>2, FilesAssumption DEF Operations!Commits
    <2>4. Operations!Return(t, TRUE, c)
      BY <1>1, <1>5, <1>6, <1>8 DEF Operations!PushRow, Coms
    <2> HIDE DEF d
    <2>5. c \in Coms /\ c[t] = d /\ \A u \in Threads \ {t} : c[u] = a[u]
      BY <2>2 DEF Coms
    <2> HIDE DEF c
    <2>6. OthersAside(t)
      BY <1>5, <2>4, <2>5, AsideReturns
    <2>7. com' \in Coms /\ th' \in Ths /\ com'[t] = d /\ th'[t].pc = "count"
      BY <2>3, <2>4, <2>5, ReturnIs DEF FilesTypes
    <2>8. QED
      BY <1>1, <1>2, <1>3, <1>4, <1>8, <2>3, <2>6, <2>7
  <1>9. QED
    BY <1>7, <1>8

\* Putting a row back: it waits again, and the batch that took it has one try less.
LEMMA PutBackIs ==
  ASSUME FilesTypes, ThreadInv, NEW t \in Threads, Operations!PutBack(t)
  PROVE  LET n == th[t].arg IN
         /\ com' \in Coms /\ th' \in Ths /\ OthersAside(t)
         /\ n \in DOMAIN rows /\ Marked(n, FALSE)
         /\ Operations!Pending' = Operations!Pending \cup {n}
         /\ com[t] = None => com'[t] = None /\ th'[t].pc = "idle"
         /\ com[t] # None =>
              /\ com'[t] # None /\ th'[t].pc = "unwind" /\ com'[t].unwinding
              /\ com'[t].todo = com[t].todo
              /\ com'[t].mine = com[t].mine /\ com'[t].alone = com[t].alone
              /\ com'[t].undone = com[t].undone \ {n}
              /\ com[t].unwinding => com'[t].left = com[t].left - 1
  <1>1. PICK n : n = th[t].arg
    OBVIOUS
  <1>2. th[t].pc = "failed" /\ n \in DOMAIN rows /\ rows' = [rows EXCEPT ![n].undone = FALSE]
    BY <1>1 DEF Operations!PutBack, ThreadInv, Placed, Undoing
  <1>3. Marked(n, FALSE) /\ Operations!Pending' = Operations!Pending \cup {n}
    BY <1>2, MarkIs DEF FilesTypes
  <1>5. PICK a \in Coms : a = Operations!Alone(t, com)
    BY AloneIs DEF FilesTypes
  <1>6. a[t] = com[t]
    BY <1>5, AloneIs DEF FilesTypes
  <1>7. CASE com[t] = None
    <2>1. Operations!Return(t, FALSE, a)
      BY <1>5, <1>7 DEF Operations!PutBack
    <2>2. OthersAside(t)
      BY <1>5, <2>1, AsideReturns
    <2>3. com' \in Coms /\ th' \in Ths /\ com'[t] = None /\ th'[t].pc = "idle"
      BY <1>6, <1>7, <2>1, ReturnIs DEF FilesTypes
    <2>4. QED
      BY <1>1, <1>2, <1>3, <1>7, <2>2, <2>3
  <1>8. CASE com[t] # None
    <2> DEFINE d == [com[t] EXCEPT !.undone = @ \ {n}]
               c == [a EXCEPT ![t] = d]
    <2>1. com[t] \in Operations!Commits
      BY <1>8 DEF FilesTypes, Coms
    <2>2. d \in Operations!Commits
      BY <2>1 DEF Operations!Commits
    <2>3. /\ d.todo = com[t].todo /\ d.mine = com[t].mine /\ d.undone = com[t].undone \ {n}
          /\ d.alone = com[t].alone /\ d.unwinding = com[t].unwinding /\ d.left = com[t].left /\ d # None
      BY <2>1, <2>2, FilesAssumption DEF Operations!Commits
    <2>4. Operations!Return(t, FALSE, c)
      BY <1>1, <1>5, <1>6, <1>8 DEF Operations!PutBack, Coms
    <2> HIDE DEF d
    <2>5. c \in Coms /\ c[t] = d /\ \A u \in Threads \ {t} : c[u] = a[u]
      BY <2>2 DEF Coms
    <2> HIDE DEF c
    <2>6. OthersAside(t)
      BY <1>5, <2>4, <2>5, AsideReturns
    <2>7. /\ com' \in Coms /\ th' \in Ths /\ com'[t] # None /\ SameCounts(com'[t], d)
          /\ com'[t].alone = d.alone /\ th'[t].pc = "unwind" /\ com'[t].unwinding
          /\ d.unwinding => com'[t].left = d.left - 1
      <3>1. d.unwinding \in BOOLEAN
        BY <2>2, CommitTypes
      <3>2. QED
        BY <2>3, <2>4, <2>5, <3>1, ReturnIs DEF FilesTypes
    <2>8. QED
      BY <1>1, <1>2, <1>3, <1>8, <2>3, <2>6, <2>7 DEF SameCounts
  <1>9. QED
    BY <1>7, <1>8

\* Taking a change back: the item leaves the rollback folder, or nothing changes.
LEMMA TakeBackIs ==
  ASSUME FilesTypes, Located, ThreadInv, NEW t \in Threads, Operations!TakeBack(t)
  PROVE  /\ com' \in Coms /\ th' \in Ths /\ Located'
         /\ \/ /\ Operations!Return(t, TRUE, com)
               /\ undoneOk' = [undoneOk EXCEPT ![th[t].arg] = @ + 1]
               /\ \A i \in Operations!Items :
                    loc'[i] = Trash => loc[i] = Trash /\ rows[th[t].arg].from # i
            \/ /\ com' = com /\ loc' = loc /\ undoneOk' = undoneOk
               /\ th'[t].pc = "failed" /\ th'[t].arg = th[t].arg
               /\ \A u \in Threads \ {t} : th'[u] = th[u]
  <1>1. PICK row : row = rows[th[t].arg]
    OBVIOUS
  <1>2. PICK item : item = Operations!ItemOf(row)
    OBVIOUS
  <1>3. th[t].arg \in DOMAIN rows /\ row \in Operations!Rows /\ th[t].pc = "popped"
    BY <1>1 DEF Operations!TakeBack, ThreadInv, Placed, Undoing, FilesTypes
  <1>4. row.to \in Paths /\ (row.from \in Paths \/ row.from \in Operations!Items)
    BY <1>3 DEF Operations!Rows
  <1>5. item # None => item \in Operations!Items /\ (row.from \in Operations!Items => item = row.from)
    BY <1>2, AtIs DEF Operations!ItemOf
  <1>6. CASE Operations!Allowed(row, item)
    <2>1. item \in Operations!Items /\ (row.from \in Operations!Items => item = row.from)
      BY <1>5, <1>6 DEF Operations!Allowed, Operations!Possible
    <2>2. /\ loc' = IF row.kind = "move" THEN Operations!Moved(item, row.to)
                    ELSE [loc EXCEPT ![item] = IF item \in Dirs THEN Unborn ELSE Gone]
          /\ undoneOk' = [undoneOk EXCEPT ![th[t].arg] = @ + 1]
          /\ Operations!Return(t, TRUE, com)
      BY <1>1, <1>2, <1>6 DEF Operations!TakeBack
    <2>3. Located' /\ \A i \in Operations!Items : loc'[i] = Trash => loc[i] = Trash /\ i # item
      <3>1. CASE row.kind = "move"
        BY <1>4, <2>1, <2>2, <3>1, MovedIs DEF Located
      <3>2. CASE row.kind # "move"
        <4>1. {Unborn, Gone} \subseteq Operations!Places \ (Paths \cup {Trash})
          BY FilesAssumption DEF Operations!Places
        <4>2. loc' = [loc EXCEPT ![item] = IF item \in Dirs THEN Unborn ELSE Gone]
          BY <2>2, <3>2
        <4>3. QED
          BY <2>1, <4>1, <4>2 DEF Located
      <3>3. QED
        BY <3>1, <3>2
    <2>4. com' \in Coms /\ th' \in Ths
      BY <2>2, ReturnIs DEF FilesTypes
    <2>5. QED
      BY <1>1, <2>1, <2>2, <2>3, <2>4
  <1>7. CASE ~Operations!Allowed(row, item)
    <2>1. /\ th' = [th EXCEPT ![t] = [pc |-> "failed", arg |-> th[t].arg]]
          /\ com' = com /\ loc' = loc /\ undoneOk' = undoneOk
      BY <1>1, <1>2, <1>7 DEF Operations!TakeBack, Operations!Goes
    <2>2. th' \in Ths /\ th'[t].pc = "failed" /\ th'[t].arg = th[t].arg
           /\ \A u \in Threads \ {t} : th'[u] = th[u]
      BY <1>3, <2>1 DEF FilesTypes, Ths, Args, Operations!Points
    <2>3. QED
      BY <2>1, <2>2 DEF FilesTypes, Located
  <1>8. QED
    BY <1>6, <1>7

\* Thread u is where it was, and its commit counts what it counted.
KeepsPlace(u) ==
  /\ th'[u] = th[u]
  /\ com[u] = None => com'[u] = None
  /\ com[u] # None =>
       com'[u] # None /\ SameCounts(com'[u], com[u]) /\ com'[u].unwinding = com[u].unwinding

\* A thread that is put aside is where it was.
LEMMA OthersKeepPlace ==
  ASSUME NEW t \in Threads, OthersAside(t)
  PROVE  \A u \in Threads \ {t} : KeepsPlace(u)
  BY DEF OthersAside, KeepsPlace

\* So is one that nothing happened to.
LEMMA SameKeepsPlace ==
  ASSUME NEW u \in Threads, th'[u] = th[u], com'[u] = com[u]
  PROVE  KeepsPlace(u)
  BY DEF KeepsPlace, SameCounts

\* A thread that is where it was is where what it runs brought it.
LEMMA PlaceKept ==
  ASSUME ThreadInv, NEW u \in Threads, KeepsPlace(u), DOMAIN rows \subseteq DOMAIN rows'
  PROVE  Placed(u)'
  BY DEF ThreadInv, Placed, KeepsPlace, SameCounts, Undoing

\* Returning brings a thread where its caller goes on, and others nowhere.
LEMMA ReturnKeepsThreads ==
  ASSUME FilesTypes, ThreadInv, NEW t \in Threads, NEW ok \in BOOLEAN,
         Operations!Return(t, ok, com), com[t] # None => com[t].todo # <<>>,
         DOMAIN rows \subseteq DOMAIN rows'
  PROVE  com' \in Coms /\ th' \in Ths /\ ThreadInv' /\ ~Undoing(t)'
         /\ th'[t].pc \in {"idle", "count", "unwind"}
         /\ \A u \in Threads \ {t} : KeepsPlace(u) /\ com'[u] = com[u]
  <1>1. com' \in Coms /\ th' \in Ths /\ \A u \in Threads \ {t} : com'[u] = com[u] /\ th'[u] = th[u]
    BY ReturnIs DEF FilesTypes
  <1>2. \A u \in Threads \ {t} : KeepsPlace(u)
    BY <1>1, SameKeepsPlace
  <1>3. \A u \in Threads \ {t} : Placed(u)'
    BY <1>2, PlaceKept
  <1>4. CASE com[t] = None
    <2>1. com'[t] = None /\ th'[t].pc = "idle"
      BY <1>4, ReturnIs DEF FilesTypes
    <2>2. Placed(t)' /\ ~Undoing(t)'
      BY <2>1 DEF Placed, Undoing
    <2>3. QED
      BY <1>1, <1>2, <1>3, <2>1, <2>2 DEF ThreadInv
  <1>5. CASE com[t] # None
    <2>1. com[t].unwinding \in BOOLEAN
      BY <1>5, CommitTypes DEF FilesTypes, Coms
    <2>2. /\ com'[t] # None /\ com'[t].todo = com[t].todo /\ th'[t].pc \in {"count", "unwind"}
          /\ com'[t].unwinding <=> th'[t].pc = "unwind"
      BY <1>5, <2>1, ReturnIs DEF FilesTypes, SameCounts
    <2>3. Placed(t)' /\ ~Undoing(t)'
      BY <1>5, <2>2 DEF Placed, Undoing
    <2>4. QED
      BY <1>1, <1>2, <1>3, <2>2, <2>3 DEF ThreadInv
  <1>6. QED
    BY <1>4, <1>5

\* Making a directory keeps types, and one item at a path.
LEMMA MakeKeepsThreads ==
  ASSUME FilesTypes, Located, ThreadInv, NEW t \in Threads, NEW x \in Paths,
         Operations!MakeDirectory(t, x), rows' = rows,
         th[t].pc \in {"idle", "step"}, com[t] # None => com[t].todo # <<>>
  PROVE  com' \in Coms /\ th' \in Ths /\ Located' /\ ThreadInv'
  <1>1. CASE Operations!Return(t, FALSE, com) /\ loc' = loc
    BY <1>1, ReturnKeepsThreads DEF Located
  <1>2. CASE ~(Operations!Return(t, FALSE, com) /\ loc' = loc)
    <2>1. /\ com' \in Coms /\ th' \in Ths /\ Located' /\ com' = com
          /\ \A u \in Threads \ {t} : th'[u] = th[u]
          /\ th'[t].pc = "changed" /\ th'[t].arg \in Operations!Rows /\ ~th'[t].arg.undone
      BY <1>2, MakeIs
    <2>2. \A u \in Threads \ {t} : Placed(u)'
      BY <2>1, SameKeepsPlace, PlaceKept
    <2>3. Placed(t)'
      BY <2>1 DEF ThreadInv, Placed, Undoing
    <2>4. QED
      BY <2>1, <2>2, <2>3 DEF ThreadInv
  <1>3. QED
    BY <1>1, <1>2

\* Taking a row keeps types.
LEMMA PopKeepsThreads ==
  ASSUME FilesTypes, ThreadInv, NEW t \in Threads, Operations!PopRow(t),
         com[t] # None => com[t].todo # <<>>
  PROVE  com' \in Coms /\ th' \in Ths /\ rows' \in Seq(Operations!Rows) /\ Len(rows') <= MaxRows /\ ThreadInv'
  <1>1. CASE Operations!Return(t, FALSE, com) /\ rows' = rows
    BY <1>1, ReturnKeepsThreads DEF FilesTypes
  <1>2. CASE ~(Operations!Return(t, FALSE, com) /\ rows' = rows)
    <2>1. PICK n \in DOMAIN rows : Taken(t, n)
      BY <1>2, PopIs
    <2>2. DOMAIN rows' = DOMAIN rows
      BY <2>1 DEF Taken, Marked, FilesTypes
    <2>3. \A u \in Threads \ {t} : Placed(u)'
      BY <2>1, <2>2, OthersKeepPlace, PlaceKept DEF Taken
    <2>4. Placed(t)'
      BY <2>1, <2>2 DEF Taken, Placed, Undoing
    <2>5. QED
      BY <2>1, <2>3, <2>4, PopIs DEF Taken, Marked, ThreadInv, FilesTypes
  <1>3. QED
    BY <1>1, <1>2

-----------------------------------------------------------------------------
(* File operations: types.                                                 *)

WellFormed == FilesTypes /\ Located /\ ThreadInv

\* What is confirmed changes the disk, or nothing; what is deleted softly is on its way to a row.
LEMMA ConfirmIs ==
  ASSUME WellFormed, NEW t \in Threads, Operations!Confirm(t)
  PROVE  /\ com' = com /\ com[t] = None /\ rows' = rows /\ th' \in Ths /\ Located'
         /\ \A u \in Threads \ {t} : th'[u] = th[u]
         /\ \/ th' = th
            \/ th'[t].pc = "changed" /\ th'[t].arg \in Operations!Rows /\ ~th'[t].arg.undone
         /\ \A j \in Operations!Items : loc'[j] = Trash =>
              loc[j] = Trash \/ (th'[t].pc = "changed" /\ th'[t].arg.from = j)
  <1> USE DEF WellFormed
  <1> DEFINE src == request.src
             dst == request.dst
             Row(from) == [kind |-> "move", from |-> from, to |-> src, undone |-> FALSE]
  <1>1. PICK i : i = Operations!At(src)
    OBVIOUS
  <1>2. /\ i # None => i \in Operations!Items
        /\ src \in Paths /\ dst \in Paths /\ com' = com /\ com[t] = None /\ rows' = rows
    BY <1>1, AtIs DEF Operations!Confirm, Operations!batchVars, FilesTypes, ThreadInv, Placed
  <1>3. ASSUME NEW from \in Paths \cup Operations!Items,
               th' = [th EXCEPT ![t] = [pc |-> "changed", arg |-> Row(from)]]
        PROVE  /\ th' \in Ths /\ \A u \in Threads \ {t} : th'[u] = th[u]
               /\ th'[t].pc = "changed" /\ th'[t].arg \in Operations!Rows /\ ~th'[t].arg.undone
               /\ th'[t].arg.from = from
    <2>1. Row(from) \in Operations!Rows
      BY <1>2 DEF Operations!Rows
    <2>2. ~Row(from).undone /\ Row(from).from = from
      OBVIOUS
    <2> HIDE DEF Row
    <2>3. th' \in Ths
      BY <1>3, <2>1 DEF FilesTypes, Ths, Args, Operations!Points
    <2>4. th'[t].pc = "changed" /\ th'[t].arg = Row(from) /\ \A u \in Threads \ {t} : th'[u] = th[u]
      BY <1>3 DEF FilesTypes, Ths
    <2>5. QED
      BY <2>1, <2>2, <2>3, <2>4
  <1>4. \/ loc' = loc /\ th' = th
        \/ /\ i # None /\ loc' = Operations!Moved(i, dst)
           /\ th' = [th EXCEPT ![t] = [pc |-> "changed", arg |-> Row(dst)]]
        \/ /\ i # None /\ loc' = [loc EXCEPT ![i] = Trash]
           /\ th' = [th EXCEPT ![t] = [pc |-> "changed", arg |-> Row(i)]]
        \/ /\ loc' = [j \in Operations!Items |-> IF j = i \/ loc[j] = i THEN Gone ELSE loc[j]]
           /\ th' = th
        \/ /\ \E c \in Files : loc' =
                [j \in Operations!Items |->
                   IF j = c THEN (IF Operations!At(dst) \in Dirs THEN Operations!At(dst) ELSE dst)
                   ELSE IF j = Operations!At(dst) /\ j \in Files THEN Gone ELSE loc[j]]
           /\ th' = th
    BY <1>1 DEF Operations!Confirm, Operations!Goes
  <1> HIDE DEF Row
  <1>5. th \in Ths
    BY DEF FilesTypes
  <1>6. CASE loc' = loc /\ th' = th
    BY <1>2, <1>5, <1>6 DEF Located
  <1>7. CASE /\ i # None /\ loc' = Operations!Moved(i, dst)
             /\ th' = [th EXCEPT ![t] = [pc |-> "changed", arg |-> Row(dst)]]
    <2>1. Located' /\ \A j \in Operations!Items : loc'[j] = Trash => loc[j] = Trash
      BY <1>2, <1>7, MovedIs DEF Located
    <2>2. QED
      BY <1>2, <1>3, <1>7, <2>1
  <1>8. CASE /\ i # None /\ loc' = [loc EXCEPT ![i] = Trash]
             /\ th' = [th EXCEPT ![t] = [pc |-> "changed", arg |-> Row(i)]]
    <2>1. Trash \in Operations!Places \ Paths
      BY FilesAssumption DEF Operations!Places
    <2>2. Located' /\ \A j \in Operations!Items : loc'[j] = Trash => loc[j] = Trash \/ j = i
      BY <1>2, <1>8, <2>1 DEF Located
    <2>3. QED
      BY <1>2, <1>3, <1>8, <2>2
  <1>9. CASE /\ loc' = [j \in Operations!Items |-> IF j = i \/ loc[j] = i THEN Gone ELSE loc[j]]
             /\ th' = th
    <2>1. Gone \in Operations!Places \ (Paths \cup {Trash})
      BY FilesAssumption DEF Operations!Places
    <2>2. Located' /\ \A j \in Operations!Items : loc'[j] = Trash => loc[j] = Trash
      BY <1>9, <2>1 DEF Located
    <2>3. QED
      BY <1>2, <1>5, <1>9, <2>2
  <1>10. CASE /\ \E c \in Files : loc' =
                   [j \in Operations!Items |->
                      IF j = c THEN (IF Operations!At(dst) \in Dirs THEN Operations!At(dst) ELSE dst)
                      ELSE IF j = Operations!At(dst) /\ j \in Files THEN Gone ELSE loc[j]]
              /\ th' = th
    <2>1. PICK there : there = Operations!At(dst)
      OBVIOUS
    <2>2. /\ there = None => \A j \in Operations!Items : loc[j] # dst
          /\ there # None => there \in Operations!Items /\ loc[there] = dst
      BY <2>1, AtIs
    <2>3. PICK c \in Files : loc' =
            [j \in Operations!Items |-> IF j = c THEN (IF there \in Dirs THEN there ELSE dst)
                                        ELSE IF j = there /\ j \in Files THEN Gone ELSE loc[j]]
      BY <1>10, <2>1
    <2>4. /\ dst \in Operations!Places \ {Trash} /\ Dirs \subseteq Operations!Places \ (Paths \cup {Trash})
          /\ Gone \in Operations!Places \ (Paths \cup {Trash})
          /\ \A j \in Operations!Items : j \in Files \/ j \in Dirs
          /\ None \notin Dirs
      BY <1>2, FilesAssumption DEF Operations!Places, Operations!Items
    <2>5. \A j \in Operations!Items : j # there => loc[j] # dst
      BY <1>2, <2>2 DEF Located
    <2>6. Located' /\ \A j \in Operations!Items : loc'[j] = Trash => loc[j] = Trash
      BY <1>2, <2>3, <2>4, <2>5 DEF Located
    <2>7. QED
      BY <1>2, <1>5, <1>10, <2>6
  <1>11. QED
    BY <1>4, <1>6, <1>7, <1>8, <1>9, <1>10

\* Every operation on files keeps types.
LEMMA OperationKeepsTypes ==
  ASSUME WellFormed, NEW t \in Threads,
         \/ \E x \in Paths : Operations!CreateDirectory(t, x)
         \/ Operations!PushRow(t) \/ Operations!Confirm(t) \/ Operations!Undo(t)
         \/ Operations!TakeBack(t) \/ Operations!PutBack(t)
  PROVE  WellFormed'
  <1> USE DEF WellFormed
  <1>1. ASSUME NEW x \in Paths, Operations!CreateDirectory(t, x) PROVE WellFormed'
    <2>1. th[t].pc = "idle" /\ com[t] = None /\ rows' = rows /\ Operations!MakeDirectory(t, x)
      BY <1>1 DEF Operations!CreateDirectory, ThreadInv, Placed
    <2>2. com' \in Coms /\ th' \in Ths /\ Located' /\ ThreadInv'
      BY <2>1, MakeKeepsThreads
    <2>3. QED
      BY <1>1, <2>2 DEF Operations!CreateDirectory, FilesTypes
  <1>2. CASE Operations!PushRow(t)
    <2>1. /\ com' \in Coms /\ th' \in Ths /\ OthersAside(t)
          /\ rows' = Append(rows, th[t].arg) /\ rows' \in Seq(Operations!Rows) /\ Len(rows') <= MaxRows
          /\ com[t] = None => com'[t] = None /\ th'[t].pc = "idle"
          /\ com[t] # None =>
               com'[t] # None /\ th'[t].pc = "count" /\ ~com'[t].unwinding /\ com'[t].todo = com[t].todo
      BY <1>2, PushIs
    <2>2. DOMAIN rows \subseteq DOMAIN rows'
      BY <2>1 DEF FilesTypes
    <2>3. \A u \in Threads \ {t} : Placed(u)'
      BY <2>1, <2>2, OthersKeepPlace, PlaceKept
    <2>4. Placed(t)'
      BY <1>2, <2>1 DEF Operations!PushRow, ThreadInv, Placed, Undoing
    <2>5. QED
      BY <1>2, <2>1, <2>3, <2>4 DEF Operations!PushRow, FilesTypes, Located, ThreadInv
  <1>3. CASE Operations!Confirm(t)
    <2>1. /\ com' = com /\ com[t] = None /\ rows' = rows /\ th' \in Ths /\ Located'
          /\ \A u \in Threads \ {t} : th'[u] = th[u]
          /\ \/ th' = th
             \/ th'[t].pc = "changed" /\ th'[t].arg \in Operations!Rows /\ ~th'[t].arg.undone
      BY <1>3, ConfirmIs
    <2>2. \A u \in Threads \ {t} : Placed(u)'
      BY <2>1, SameKeepsPlace, PlaceKept
    <2>3. Placed(t)'
      BY <2>1 DEF ThreadInv, Placed, Undoing
    <2>4. request' = None /\ UNCHANGED <<scene, readOnly, plan, added, outside>>
      BY <1>3 DEF Operations!Confirm, Operations!batchVars
    <2>5. QED
      BY <2>1, <2>2, <2>3, <2>4 DEF FilesTypes, ThreadInv
  <1>4. CASE Operations!Undo(t)
    <2>1. com[t] = None /\ Operations!PopRow(t)
      BY <1>4 DEF Operations!Undo, ThreadInv, Placed
    <2>2. QED
      BY <1>4, <2>1, PopKeepsThreads DEF Operations!Undo, FilesTypes, Located
  <1>5. CASE Operations!TakeBack(t)
    <2>1. com' \in Coms /\ th' \in Ths /\ Located' /\ rows' = rows
      BY <1>5, TakeBackIs DEF Operations!TakeBack
    <2>2. CASE Operations!Return(t, TRUE, com)
      <3>1. com[t] # None => com[t].todo # <<>>
        BY <1>5 DEF Operations!TakeBack, ThreadInv, Placed
      <3>2. ThreadInv'
        BY <2>1, <2>2, <3>1, ReturnKeepsThreads
      <3>3. QED
        BY <1>5, <2>1, <3>2 DEF Operations!TakeBack, FilesTypes
    <2>3. CASE ~Operations!Return(t, TRUE, com)
      <3>1. com' = com /\ th'[t].pc = "failed" /\ th'[t].arg = th[t].arg /\ \A u \in Threads \ {t} : th'[u] = th[u]
        BY <1>5, <2>3, TakeBackIs
      <3>2. \A u \in Threads \ {t} : Placed(u)'
        BY <2>1, <3>1, SameKeepsPlace, PlaceKept
      <3>3. Placed(t)'
        BY <1>5, <2>1, <3>1 DEF Operations!TakeBack, ThreadInv, Placed, Undoing
      <3>4. QED
        BY <1>5, <2>1, <3>2, <3>3 DEF Operations!TakeBack, FilesTypes, ThreadInv
    <2>4. QED
      BY <2>2, <2>3
  <1>6. CASE Operations!PutBack(t)
    <2>1. /\ com' \in Coms /\ th' \in Ths /\ OthersAside(t)
          /\ rows' \in Seq(Operations!Rows) /\ Len(rows') = Len(rows)
          /\ com[t] = None => com'[t] = None /\ th'[t].pc = "idle"
          /\ com[t] # None =>
               com'[t] # None /\ th'[t].pc = "unwind" /\ com'[t].unwinding /\ com'[t].todo = com[t].todo
      BY <1>6, PutBackIs DEF Marked
    <2>2. DOMAIN rows \subseteq DOMAIN rows'
      BY <2>1 DEF FilesTypes
    <2>3. \A u \in Threads \ {t} : Placed(u)'
      BY <2>1, <2>2, OthersKeepPlace, PlaceKept
    <2>4. Placed(t)'
      BY <1>6, <2>1 DEF Operations!PutBack, ThreadInv, Placed, Undoing
    <2>5. QED
      BY <1>6, <2>1, <2>3, <2>4 DEF Operations!PutBack, FilesTypes, Located, ThreadInv
  <1>7. QED
    BY <1>1, <1>2, <1>3, <1>4, <1>5, <1>6

\* Every step of a batch keeps types.
LEMMA CommitKeepsTypes ==
  ASSUME WellFormed, NEW t \in Threads,
         \/ Operations!Commit(t) \/ Operations!Step(t) \/ Operations!Count(t)
         \/ Operations!Unwind(t) \/ Operations!CommitEnds(t)
  PROVE  WellFormed'
  <1> USE DEF WellFormed
  <1>1. CASE Operations!Commit(t)
    <2> DEFINE d == [todo |-> plan, before |-> Cardinality(Operations!Pending), created |-> 0,
                     unwinding |-> FALSE, left |-> 0, mine |-> {}, undone |-> {},
                     alone |-> \A u \in Threads : th[u].pc = "idle"]
    <2>1. th[t].pc = "idle" /\ com[t] = None /\ plan' = <<>>
      BY <1>1 DEF Operations!Commit, Operations!PlanAfter, ThreadInv, Placed
    <2>2. d \in Operations!Commits /\ d.todo = plan /\ ~d.unwinding
      <3>1. Cardinality(Operations!Pending) \in Int
        BY PendingIs DEF FilesTypes
      <3>2. QED
        BY <3>1 DEF Operations!Commits, FilesTypes
    <2>3. \/ UNCHANGED <<th, com>>
          \/ com' = [com EXCEPT ![t] = d] /\ th' = [th EXCEPT ![t] = [pc |-> "step", arg |-> None]]
      BY <1>1, CardinalityIs DEF Operations!Commit, Operations!Goes
    <2> HIDE DEF d
    <2>4. /\ com' \in Coms /\ th' \in Ths
          /\ \A u \in Threads \ {t} : th'[u] = th[u] /\ com'[u] = com[u]
          /\ \/ th'[t] = th[t] /\ com'[t] = com[t]
             \/ th'[t].pc = "step" /\ com'[t] = d
      <3>1. CASE UNCHANGED <<th, com>>
        BY <3>1 DEF FilesTypes
      <3>2. CASE com' = [com EXCEPT ![t] = d] /\ th' = [th EXCEPT ![t] = [pc |-> "step", arg |-> None]]
        BY <2>2, <3>2 DEF FilesTypes, Coms, Ths, Args, Operations!Points
      <3>3. QED
        BY <2>3, <3>1, <3>2
    <2>5. UNCHANGED <<scene, loc, readOnly, rows, request, added, outside>>
      BY <1>1 DEF Operations!Commit, Operations!fileVars
    <2>6. \A u \in Threads \ {t} : Placed(u)'
      BY <2>4, <2>5, SameKeepsPlace, PlaceKept
    <2>7. Placed(t)'
      <3>1. d # None
        BY <2>2, FilesAssumption
      <3>2. QED
        BY <2>1, <2>2, <2>4, <3>1 DEF Placed, Undoing
    <2>8. QED
      BY <2>1, <2>4, <2>5, <2>6, <2>7 DEF FilesTypes, Located, ThreadInv
  <1>2. CASE Operations!Step(t)
    <2>1. /\ th[t].pc = "step" /\ com[t].todo # <<>>
          /\ UNCHANGED <<scene, readOnly, request, plan, added, outside>>
      BY <1>2 DEF Operations!Step
    <2>2. CASE rows' = rows /\ \E x \in Paths : Operations!MakeDirectory(t, x)
      BY <2>1, <2>2, MakeKeepsThreads DEF FilesTypes
    <2>3. CASE Operations!PopRow(t) /\ loc' = loc
      BY <2>1, <2>3, PopKeepsThreads DEF FilesTypes, Located
    <2>4. CASE loc' = loc /\ rows' = rows /\ \E ok \in BOOLEAN : Operations!Return(t, ok, com)
      BY <2>1, <2>4, ReturnKeepsThreads DEF FilesTypes, Located
    <2>5. QED
      BY <1>2, <2>2, <2>3, <2>4 DEF Operations!Step
  <1>3. CASE Operations!Count(t)
    <2>1. /\ th[t].pc = "count" /\ com[t] # None /\ ~com[t].unwinding /\ com[t].todo # <<>>
          /\ com[t] \in Operations!Commits
          /\ UNCHANGED <<scene, loc, readOnly, rows, request, plan, added, outside>>
      BY <1>3 DEF Operations!Count, Operations!fileVars, ThreadInv, Placed, FilesTypes, Coms
    <2>2. PICK now \in Int : now = Cardinality(Operations!Pending)
      BY PendingIs DEF FilesTypes
    <2> DEFINE created == IF now > com[t].before THEN com[t].created + (now - com[t].before) ELSE com[t].created
               d == [com[t] EXCEPT !.created = created, !.before = now, !.todo = Tail(@)]
    <2>3. com' = [com EXCEPT ![t] = d] /\ th' = [th EXCEPT ![t] = [pc |-> "step", arg |-> None]]
      BY <1>3, <2>2, CardinalityIs DEF Operations!Count, Operations!Base, Operations!Goes, FilesTypes, Coms
    <2>4. d \in Operations!Commits /\ ~d.unwinding
      <3>1. Tail(com[t].todo) \in Seq(Operations!Steps) /\ created \in Int
        BY <2>1, CommitTypes
      <3> HIDE DEF created
      <3>2. [com[t] EXCEPT !.created = created] \in Operations!Commits
        BY <2>1, <3>1 DEF Operations!Commits
      <3>3. [com[t] EXCEPT !.created = created, !.before = now] \in Operations!Commits
        BY <3>2 DEF Operations!Commits
      <3>4. d \in Operations!Commits
        BY <2>1, <3>1, <3>3 DEF Operations!Commits
      <3>5. QED
        BY <2>1, <3>4 DEF Operations!Commits
    <2> HIDE DEF d
    <2>5. /\ com' \in Coms /\ th' \in Ths /\ th'[t].pc = "step" /\ com'[t] = d
          /\ \A u \in Threads \ {t} : th'[u] = th[u] /\ com'[u] = com[u]
      BY <2>3, <2>4 DEF FilesTypes, Coms, Ths, Args, Operations!Points
    <2>6. \A u \in Threads \ {t} : Placed(u)'
      BY <2>1, <2>5, SameKeepsPlace, PlaceKept
    <2>7. Placed(t)'
      <3>1. d # None
        BY <2>4, FilesAssumption
      <3>2. QED
        BY <2>4, <2>5, <3>1 DEF Placed, Undoing
    <2>8. QED
      BY <2>1, <2>5, <2>6, <2>7 DEF FilesTypes, Located, ThreadInv
  <1>4. CASE Operations!Unwind(t)
    <2>1. /\ Operations!PopRow(t)
          /\ com[t] # None => com[t].todo # <<>>
          /\ UNCHANGED <<scene, loc, readOnly, request, plan, added, outside>>
      BY <1>4 DEF Operations!Unwind, ThreadInv, Placed
    <2>2. QED
      BY <2>1, PopKeepsThreads DEF FilesTypes, Located
  <1>5. CASE Operations!CommitEnds(t)
    <2>1. /\ th' = [th EXCEPT ![t] = [pc |-> "idle", arg |-> None]] /\ com' = [com EXCEPT ![t] = None]
          /\ UNCHANGED <<scene, loc, readOnly, rows, request, plan, added, outside>>
      BY <1>5 DEF Operations!CommitEnds, Operations!fileVars, Operations!Idle
    <2>2. /\ com' \in Coms /\ th' \in Ths /\ th'[t].pc = "idle" /\ com'[t] = None
          /\ \A u \in Threads \ {t} : th'[u] = th[u] /\ com'[u] = com[u]
      BY <2>1 DEF FilesTypes, Coms, Ths, Args, Operations!Points
    <2>3. \A u \in Threads \ {t} : Placed(u)'
      BY <2>1, <2>2, SameKeepsPlace, PlaceKept
    <2>4. Placed(t)'
      BY <2>2 DEF Placed, Undoing
    <2>5. QED
      BY <2>1, <2>2, <2>3, <2>4 DEF FilesTypes, Located, ThreadInv
  <1>6. QED
    BY <1>1, <1>2, <1>3, <1>4, <1>5

\* So do requests, plans, the policy and the end of the process.
LEMMA OutsideKeepsTypes ==
  ASSUME WellFormed,
         \/ \E op \in {"move", "copy", "delete", "wipe"}, src, dst \in Paths : Operations!Request(op, src, dst)
         \/ \E kind \in Operations!Kinds : Operations!Add(kind)
         \/ Operations!Forget \/ Operations!Plan \/ Operations!SetReadOnly \/ Operations!Restart
  PROVE  WellFormed'
  <1> USE DEF WellFormed
  <1>1. ASSUME UNCHANGED <<loc, rows, th, com>> PROVE Located' /\ ThreadInv' /\ (FilesTypes => th' \in Ths /\ com' \in Coms)
    BY <1>1 DEF Located, ThreadInv, Placed, Undoing, FilesTypes
  <1>2. ASSUME NEW op \in {"move", "copy", "delete", "wipe"}, NEW src \in Paths, NEW dst \in Paths,
               Operations!Request(op, src, dst)
        PROVE  WellFormed'
    <2>1. UNCHANGED <<loc, rows, th, com>>
      BY <1>2 DEF Operations!Request, Operations!batchVars
    <2>2. request'.src = src /\ request'.dst = dst
      BY <1>2 DEF Operations!Request
    <2>3. QED
      BY <1>1, <1>2, <2>1, <2>2 DEF Operations!Request, Operations!batchVars, FilesTypes
  <1>3. ASSUME NEW kind \in Operations!Kinds, Operations!Add(kind) PROVE WellFormed'
    <2>1. UNCHANGED <<loc, rows, th, com>>
      BY <1>3 DEF Operations!Add, Operations!fileVars
    <2>2. added + 1 \in 1 .. MaxSteps /\ [id |-> added + 1, kind |-> kind] \in Operations!Steps
      BY <1>3, FilesAssumption DEF Operations!Add, Operations!Steps, FilesTypes
    <2>3. plan' \in Seq(Operations!Steps) /\ added' \in 0 .. MaxSteps
      BY <1>3, <2>2 DEF Operations!Add, FilesTypes
    <2>4. QED
      BY <1>1, <1>3, <2>1, <2>3 DEF Operations!Add, Operations!fileVars, FilesTypes
  <1>4. CASE Operations!Forget
    BY <1>1, <1>4 DEF Operations!Forget, Operations!batchVars, FilesTypes
  <1>5. CASE Operations!Plan
    BY <1>1, <1>5 DEF Operations!Plan, Operations!fileVars, FilesTypes
  <1>6. CASE Operations!SetReadOnly
    BY <1>1, <1>6, FilesAssumption DEF Operations!SetReadOnly, Operations!batchVars, FilesTypes
  <1>7. CASE Operations!Restart
    <2>1. /\ th' = [u \in Threads |-> [pc |-> "idle", arg |-> None]] /\ com' = [u \in Threads |-> None]
          /\ plan' = <<>> /\ request' = None /\ readOnly' = FALSE /\ outside' \in 0 .. MaxOutside
          /\ UNCHANGED <<scene, loc, rows, added>>
      BY <1>7, FilesAssumption DEF Operations!Restart, Operations!Idle, FilesTypes
    <2>2. /\ th' \in Ths /\ com' \in Coms
          /\ \A u \in Threads : th'[u].pc = "idle" /\ com'[u] = None
      BY <2>1 DEF Ths, Coms, Args, Operations!Points
    <2>3. ThreadInv'
      BY <2>2 DEF ThreadInv, Placed, Undoing
    <2>4. Located'
      BY <2>1 DEF Located
    <2>5. FilesTypes'
      <3>0. <<>> \in Seq(Operations!Steps)
        OBVIOUS
      <3>1. plan' \in Seq(Operations!Steps) /\ request' = None /\ readOnly' \in BOOLEAN
        BY <2>1, <3>0
      <3>2. outside' \in 0 .. MaxOutside /\ UNCHANGED <<scene, rows, added>>
        BY <2>1
      <3>3. QED
        BY <2>2, <3>1, <3>2 DEF FilesTypes
    <2>6. QED
      BY <2>3, <2>4, <2>5
  <1>8. QED
    BY <1>2, <1>3, <1>4, <1>5, <1>6, <1>7

-----------------------------------------------------------------------------
(* File operations: the store and the rollback folder.                     *)

\* Thread t leaves the store alone, and is not between the disk and the store.
Quiet(t) ==
  /\ rows' = rows /\ undoneOk' = undoneOk /\ torn' = torn
  /\ th[t].pc \notin {"changed", "popped", "failed"} /\ ~Undoing(t)'
  /\ \A u \in Threads \ {t} : th'[u] = th[u] /\ com'[u] = com[u]
  /\ \A i \in Operations!Items : loc'[i] = Trash =>
       loc[i] = Trash \/ (th'[t].pc = "changed" /\ th'[t].arg.from = i)

\* Thread t takes a row and changes nothing else.
Takes(t) ==
  /\ loc' = loc /\ undoneOk' = undoneOk /\ torn' = torn
  /\ th[t].pc \in {"idle", "step", "unwind"}
  /\ \E n \in DOMAIN rows : Taken(t, n) /\ Operations!Pending' = Operations!Pending \ {n}

\* Making a directory leaves the store alone until it is done.
LEMMA MakeIsQuiet ==
  ASSUME WellFormed, NEW t \in Threads, NEW x \in Paths, Operations!MakeDirectory(t, x),
         rows' = rows, undoneOk' = undoneOk, torn' = torn,
         th[t].pc \in {"idle", "step"}, com[t] # None => com[t].todo # <<>>
  PROVE  Quiet(t)
  <1> USE DEF WellFormed
  <1>1. CASE Operations!Return(t, FALSE, com) /\ loc' = loc
    <2>1. ~Undoing(t)' /\ \A u \in Threads \ {t} : th'[u] = th[u] /\ com'[u] = com[u]
      BY <1>1, ReturnKeepsThreads DEF KeepsPlace
    <2>2. QED
      BY <1>1, <2>1 DEF Quiet
  <1>2. CASE ~(Operations!Return(t, FALSE, com) /\ loc' = loc)
    BY <1>2, MakeIs DEF Quiet, Undoing
  <1>3. QED
    BY <1>1, <1>2

\* Taking a row takes the newest, or there is none.
LEMMA PopIsQuietOrTakes ==
  ASSUME WellFormed, NEW t \in Threads, Operations!PopRow(t),
         loc' = loc, undoneOk' = undoneOk, torn' = torn,
         th[t].pc \in {"idle", "step", "unwind"}, com[t] # None => com[t].todo # <<>>
  PROVE  Quiet(t) \/ Takes(t)
  <1> USE DEF WellFormed
  <1>1. CASE Operations!Return(t, FALSE, com) /\ rows' = rows
    <2>1. ~Undoing(t)' /\ \A u \in Threads \ {t} : th'[u] = th[u] /\ com'[u] = com[u]
      BY <1>1, ReturnKeepsThreads DEF KeepsPlace
    <2>2. QED
      BY <1>1, <2>1 DEF Quiet
  <1>2. CASE ~(Operations!Return(t, FALSE, com) /\ rows' = rows)
    BY <1>2, PopIs DEF Takes
  <1>3. QED
    BY <1>1, <1>2

\* A step of a batch is one of three things, whatever it is called.
LEMMA StepIs ==
  ASSUME WellFormed, NEW t \in Threads, Operations!Step(t)
  PROVE  /\ th[t].pc = "step" /\ com[t] # None /\ com[t].todo # <<>>
         /\ ran' = Append(ran, Head(com[t].todo).id)
         /\ UNCHANGED <<plan, added, dropped, undoneOk, torn>>
         /\ \/ rows' = rows /\ \E x \in Paths : Operations!MakeDirectory(t, x)
            \/ loc' = loc /\ Operations!PopRow(t)
            \/ loc' = loc /\ rows' = rows /\ \E ok \in BOOLEAN : Operations!Return(t, ok, com)
  BY DEF WellFormed, ThreadInv, Placed, Operations!Step

\* What is not about to change the store leaves it alone.
LEMMA QuietOrTakes ==
  ASSUME WellFormed, NEW t \in Threads,
         \/ \E x \in Paths : Operations!CreateDirectory(t, x)
         \/ Operations!Confirm(t) \/ Operations!Undo(t) \/ Operations!Commit(t) \/ Operations!Step(t)
         \/ Operations!Count(t) \/ Operations!Unwind(t) \/ Operations!CommitEnds(t)
  PROVE  Quiet(t) \/ Takes(t)
  <1> USE DEF WellFormed
  <1>1. ASSUME NEW x \in Paths, Operations!CreateDirectory(t, x) PROVE Quiet(t)
    BY <1>1, MakeIsQuiet DEF Operations!CreateDirectory, ThreadInv, Placed
  <1>2. CASE Operations!Confirm(t)
    <2>1. th[t].pc = "idle" /\ undoneOk' = undoneOk /\ torn' = torn
      BY <1>2 DEF Operations!Confirm
    <2>2. ~Undoing(t)'
      BY <1>2, <2>1, ConfirmIs DEF Undoing
    <2>3. QED
      BY <1>2, <2>1, <2>2, ConfirmIs DEF Quiet
  <1>3. CASE Operations!Undo(t)
    BY <1>3, PopIsQuietOrTakes DEF Operations!Undo, ThreadInv, Placed
  <1>4. CASE Operations!Commit(t)
    <2>1. th[t].pc = "idle" /\ UNCHANGED <<loc, rows, undoneOk, torn>>
      BY <1>4 DEF Operations!Commit, Operations!fileVars
    <2>2. \/ th' = th /\ com' = com
          \/ /\ th' = [th EXCEPT ![t] = [pc |-> "step", arg |-> None]]
             /\ \E d : com' = [com EXCEPT ![t] = d]
      BY <1>4 DEF Operations!Commit, Operations!Goes
    <2>3. ~Undoing(t)' /\ \A u \in Threads \ {t} : th'[u] = th[u] /\ com'[u] = com[u]
      BY <2>1, <2>2 DEF FilesTypes, Ths, Coms, Undoing
    <2>4. QED
      BY <2>1, <2>3 DEF Quiet
  <1>5. CASE Operations!Step(t)
    <2>1. CASE rows' = rows /\ \E x \in Paths : Operations!MakeDirectory(t, x)
      BY <1>5, <2>1, StepIs, MakeIsQuiet
    <2>2. CASE loc' = loc /\ Operations!PopRow(t)
      BY <1>5, <2>2, StepIs, PopIsQuietOrTakes
    <2>3. CASE loc' = loc /\ rows' = rows /\ \E ok \in BOOLEAN : Operations!Return(t, ok, com)
      <3>1. ~Undoing(t)' /\ \A u \in Threads \ {t} : th'[u] = th[u] /\ com'[u] = com[u]
        BY <1>5, <2>3, StepIs, ReturnKeepsThreads DEF KeepsPlace
      <3>2. QED
        BY <1>5, <2>3, <3>1, StepIs DEF Quiet
    <2>4. QED
      BY <1>5, <2>1, <2>2, <2>3, StepIs
  <1>6. CASE Operations!Count(t)
    <2>1. /\ th[t].pc = "count" /\ UNCHANGED <<loc, rows, undoneOk, torn>>
          /\ th' = [th EXCEPT ![t] = [pc |-> "step", arg |-> None]]
      BY <1>6 DEF Operations!Count, Operations!fileVars, Operations!Goes
    <2>2. ~Undoing(t)' /\ \A u \in Threads \ {t} : th'[u] = th[u]
      BY <2>1 DEF FilesTypes, Ths, Undoing
    <2>3. \A u \in Threads \ {t} : com'[u] = com[u]
      BY <1>6 DEF FilesTypes, Coms, Operations!Count
    <2>4. QED
      BY <2>1, <2>2, <2>3 DEF Quiet
  <1>7. CASE Operations!Unwind(t)
    BY <1>7, PopIsQuietOrTakes DEF Operations!Unwind, ThreadInv, Placed
  <1>8. CASE Operations!CommitEnds(t)
    <2>1. /\ th[t].pc \in {"step", "unwind"} /\ UNCHANGED <<loc, rows, undoneOk, torn>>
          /\ th' = [th EXCEPT ![t] = [pc |-> "idle", arg |-> None]] /\ com' = [com EXCEPT ![t] = None]
      BY <1>8 DEF Operations!CommitEnds, Operations!fileVars, Operations!Idle
    <2>2. ~Undoing(t)' /\ \A u \in Threads \ {t} : th'[u] = th[u] /\ com'[u] = com[u]
      BY <2>1 DEF FilesTypes, Ths, Coms, Undoing
    <2>3. QED
      BY <2>1, <2>2 DEF Quiet
  <1>9. QED
    BY <1>1, <1>2, <1>3, <1>4, <1>5, <1>6, <1>7, <1>8

\* A row is in the hands of one thread, which has marked it and not yet taken it back.
UndoInv ==
  /\ undoneOk \in [1 .. MaxRows -> 0 .. 1]
  /\ \A t \in Threads : Undoing(t) => rows[th[t].arg].undone /\ undoneOk[th[t].arg] = 0
  /\ \A t, u \in Threads : Undoing(t) /\ Undoing(u) /\ th[t].arg = th[u].arg => t = u
  /\ \A r \in 1 .. MaxRows : undoneOk[r] # 0 => r \in DOMAIN rows /\ rows[r].undone

\* Somebody knows that item i can be brought back.
Known(i) ==
  \/ \E r \in Operations!Pending : rows[r].from = i
  \/ \E t \in Threads : \/ th[t].pc = "changed" /\ th[t].arg.from = i
                        \/ Undoing(t) /\ rows[th[t].arg].from = i

TrashInv == torn \/ \A i \in Operations!Items : loc[i] = Trash => Known(i)

StoreInv == UndoInv /\ TrashInv

\* A thread that leaves the store alone keeps the bookkeeping of undo.
LEMMA QuietKeepsStore ==
  ASSUME WellFormed, StoreInv, NEW t \in Threads, Quiet(t)
  PROVE  StoreInv'
  <1>1. /\ rows' = rows /\ undoneOk' = undoneOk /\ torn' = torn
        /\ th[t].pc \notin {"changed", "popped", "failed"} /\ ~Undoing(t) /\ ~Undoing(t)'
        /\ \A u \in Threads \ {t} : th'[u] = th[u] /\ (Undoing(u)' <=> Undoing(u))
        /\ Operations!Pending' = Operations!Pending
    BY DEF Quiet, Undoing, Operations!Pending
  <1>2. UndoInv'
    BY <1>1 DEF StoreInv, UndoInv
  <1>3. ASSUME ~torn, NEW i \in Operations!Items, loc'[i] = Trash PROVE Known(i)'
    <2>1. CASE th'[t].pc = "changed" /\ th'[t].arg.from = i
      BY <2>1 DEF Known
    <2>2. CASE ~(th'[t].pc = "changed" /\ th'[t].arg.from = i)
      <3>1. Known(i)
        BY <1>3, <2>2 DEF StoreInv, TrashInv, Quiet
      <3>2. CASE \E r \in Operations!Pending : rows[r].from = i
        BY <1>1, <3>2 DEF Known
      <3>3. CASE \E u \in Threads : \/ th[u].pc = "changed" /\ th[u].arg.from = i
                                    \/ Undoing(u) /\ rows[th[u].arg].from = i
        <4>1. PICK u \in Threads : \/ th[u].pc = "changed" /\ th[u].arg.from = i
                                   \/ Undoing(u) /\ rows[th[u].arg].from = i
          BY <3>3
        <4>2. u # t
          BY <1>1, <4>1
        <4>3. QED
          BY <1>1, <4>1, <4>2 DEF Known
      <3>4. QED
        BY <3>1, <3>2, <3>3 DEF Known
    <2>3. QED
      BY <2>1, <2>2
  <1>4. QED
    BY <1>1, <1>2, <1>3 DEF StoreInv, TrashInv

\* The row a thread takes is in no other thread's hands and was never taken back.
LEMMA TakingKeepsStore ==
  ASSUME WellFormed, StoreInv, NEW t \in Threads, Takes(t)
  PROVE  StoreInv'
  <1>1. /\ loc' = loc /\ undoneOk' = undoneOk /\ torn' = torn
        /\ th[t].pc \in {"idle", "step", "unwind"} /\ ~Undoing(t)
    BY DEF Takes, Undoing
  <1>2. PICK n \in DOMAIN rows : Taken(t, n) /\ Operations!Pending' = Operations!Pending \ {n}
    BY DEF Takes
  <1>3. /\ n \in Operations!Pending /\ ~rows[n].undone
        /\ DOMAIN rows' = DOMAIN rows
        /\ \A r \in DOMAIN rows : rows'[r].from = rows[r].from
        /\ \A r \in DOMAIN rows \ {n} : rows'[r].undone <=> rows[r].undone
        /\ rows'[n].undone
        /\ th'[t].pc = "popped" /\ th'[t].arg = n /\ Undoing(t)'
        /\ \A u \in Threads \ {t} : th'[u] = th[u] /\ (Undoing(u)' <=> Undoing(u))
    BY <1>2 DEF Taken, Marked, OthersAside, Undoing, Operations!Pending, WellFormed, FilesTypes
  <1>4. \A u \in Threads : Undoing(u) => th[u].arg \in DOMAIN rows \ {n}
    BY <1>3 DEF StoreInv, UndoInv, WellFormed, ThreadInv, Placed
  <1>5. undoneOk[n] = 0
    <2>1. n \in 1 .. MaxRows
      BY <1>2, FilesAssumption DEF WellFormed, FilesTypes
    <2>2. QED
      BY <1>3, <2>1 DEF StoreInv, UndoInv
  <1>6. UndoInv'
    <2>1. undoneOk' \in [1 .. MaxRows -> 0 .. 1]
      BY <1>1 DEF StoreInv, UndoInv
    <2>2. \A u \in Threads : Undoing(u)' => rows'[th'[u].arg].undone /\ undoneOk'[th'[u].arg] = 0
      BY <1>1, <1>3, <1>4, <1>5 DEF StoreInv, UndoInv
    <2>3. \A u, v \in Threads : Undoing(u)' /\ Undoing(v)' /\ th'[u].arg = th'[v].arg => u = v
      BY <1>3, <1>4 DEF StoreInv, UndoInv
    <2>4. \A r \in 1 .. MaxRows : undoneOk'[r] # 0 => r \in DOMAIN rows' /\ rows'[r].undone
      BY <1>1, <1>3 DEF StoreInv, UndoInv
    <2>5. QED
      BY <2>1, <2>2, <2>3, <2>4 DEF UndoInv
  <1>7. ASSUME ~torn, NEW i \in Operations!Items, loc'[i] = Trash PROVE Known(i)'
    <2>1. Known(i)
      BY <1>1, <1>7 DEF StoreInv, TrashInv
    <2>2. CASE \E r \in Operations!Pending : rows[r].from = i
      <3>1. PICK r \in Operations!Pending : rows[r].from = i
        BY <2>2
      <3>2. r \in DOMAIN rows /\ rows'[r].from = i
        BY <1>3, <3>1 DEF Operations!Pending
      <3>3. CASE r = n
        BY <1>3, <3>2, <3>3 DEF Known
      <3>4. CASE r # n
        BY <1>2, <3>1, <3>2, <3>4 DEF Known
      <3>5. QED
        BY <3>3, <3>4
    <2>3. CASE \E u \in Threads : \/ th[u].pc = "changed" /\ th[u].arg.from = i
                                  \/ Undoing(u) /\ rows[th[u].arg].from = i
      <3>1. PICK u \in Threads : \/ th[u].pc = "changed" /\ th[u].arg.from = i
                                 \/ Undoing(u) /\ rows[th[u].arg].from = i
        BY <2>3
      <3>2. u # t
        BY <1>1, <3>1
      <3>3. QED
        BY <1>3, <1>4, <3>1, <3>2 DEF Known
    <2>4. QED
      BY <2>1, <2>2, <2>3 DEF Known
  <1>8. QED
    BY <1>1, <1>6, <1>7 DEF StoreInv, TrashInv

\* A row that is recorded knows what the thread that recorded it knew.
LEMMA PushKeepsStore ==
  ASSUME WellFormed, StoreInv, NEW t \in Threads, Operations!PushRow(t)
  PROVE  StoreInv'
  <1>1. PICK n : n = Len(rows) + 1
    OBVIOUS
  <1>2. /\ loc' = loc /\ undoneOk' = undoneOk /\ torn' = torn /\ th[t].pc = "changed" /\ ~Undoing(t)
    BY DEF Operations!PushRow, Undoing
  <1>3. /\ OthersAside(t) /\ rows' = Append(rows, th[t].arg)
        /\ Operations!Pending' = Operations!Pending \cup {n} /\ th'[t].pc \in {"idle", "count"}
    BY <1>1, PushIs DEF WellFormed
  <1>4. /\ DOMAIN rows' = DOMAIN rows \cup {n} /\ rows'[n] = th[t].arg
        /\ \A r \in DOMAIN rows : rows'[r] = rows[r]
        /\ \A u \in Threads \ {t} : th'[u] = th[u] /\ (Undoing(u)' <=> Undoing(u))
        /\ ~Undoing(t)'
    BY <1>1, <1>3 DEF OthersAside, Undoing, WellFormed, FilesTypes
  <1>5. \A u \in Threads : Undoing(u) => th[u].arg \in DOMAIN rows
    BY DEF WellFormed, ThreadInv, Placed
  <1>6. UndoInv'
    BY <1>2, <1>4, <1>5 DEF StoreInv, UndoInv
  <1>7. ASSUME ~torn, NEW i \in Operations!Items, loc'[i] = Trash PROVE Known(i)'
    <2>1. Known(i)
      BY <1>2, <1>7 DEF StoreInv, TrashInv
    <2>2. CASE \E r \in Operations!Pending : rows[r].from = i
      <3>1. PICK r \in Operations!Pending : rows[r].from = i
        BY <2>2
      <3>2. r \in DOMAIN rows
        BY <3>1 DEF Operations!Pending
      <3>3. QED
        BY <1>3, <1>4, <3>1, <3>2 DEF Known
    <2>3. CASE \E u \in Threads : \/ th[u].pc = "changed" /\ th[u].arg.from = i
                                  \/ Undoing(u) /\ rows[th[u].arg].from = i
      <3>1. PICK u \in Threads : \/ th[u].pc = "changed" /\ th[u].arg.from = i
                                 \/ Undoing(u) /\ rows[th[u].arg].from = i
        BY <2>3
      <3>2. CASE u = t
        BY <1>2, <1>3, <1>4, <3>1, <3>2 DEF Known
      <3>3. CASE u # t
        BY <1>4, <1>5, <3>1, <3>3 DEF Known
      <3>4. QED
        BY <3>2, <3>3
    <2>4. QED
      BY <2>1, <2>2, <2>3 DEF Known
  <1>8. QED
    BY <1>2, <1>6, <1>7 DEF StoreInv, TrashInv

\* Taking a change back moves the item out of the rollback folder, once.
LEMMA TakeBackKeepsStore ==
  ASSUME WellFormed, StoreInv, NEW t \in Threads, Operations!TakeBack(t)
  PROVE  StoreInv'
  <1>1. PICK n : n = th[t].arg
    OBVIOUS
  <1>2. /\ rows' = rows /\ torn' = torn /\ th[t].pc = "popped" /\ Undoing(t) /\ n \in DOMAIN rows
        /\ Operations!Pending' = Operations!Pending
    BY <1>1 DEF Operations!TakeBack, Undoing, WellFormed, ThreadInv, Placed, Operations!Pending
  <1>3. n \in 1 .. MaxRows
    BY <1>2, FilesAssumption DEF WellFormed, FilesTypes
  <1>4. CASE /\ Operations!Return(t, TRUE, com)
             /\ undoneOk' = [undoneOk EXCEPT ![n] = @ + 1]
             /\ \A i \in Operations!Items : loc'[i] = Trash => loc[i] = Trash /\ rows[n].from # i
    <2>1. com[t] # None => com[t].todo # <<>>
      BY <1>2 DEF WellFormed, ThreadInv, Placed
    <2>2. ~Undoing(t)' /\ \A u \in Threads \ {t} : th'[u] = th[u] /\ (Undoing(u)' <=> Undoing(u))
      BY <1>2, <1>4, <2>1, ReturnKeepsThreads DEF KeepsPlace, WellFormed, Undoing
    <2>3. rows[n].undone /\ undoneOk[n] = 0
      BY <1>1, <1>2 DEF StoreInv, UndoInv
    <2>4. undoneOk' = [undoneOk EXCEPT ![n] = 1]
      BY <1>4, <2>3
    <2>5. \A u \in Threads \ {t} : Undoing(u) => th[u].arg # n
      BY <1>1, <1>2 DEF StoreInv, UndoInv
    <2>6. /\ undoneOk' \in [1 .. MaxRows -> 0 .. 1] /\ undoneOk'[n] = 1
          /\ \A r \in 1 .. MaxRows : r # n => undoneOk'[r] = undoneOk[r]
      BY <1>3, <2>4 DEF StoreInv, UndoInv
    <2>7. \A u \in Threads : Undoing(u) => th[u].arg \in DOMAIN rows /\ th[u].arg \in 1 .. MaxRows
      BY FilesAssumption DEF WellFormed, FilesTypes, ThreadInv, Placed
    <2>8. UndoInv'
      BY <1>2, <2>2, <2>3, <2>5, <2>6, <2>7 DEF StoreInv, UndoInv
    <2>9. ASSUME ~torn, NEW i \in Operations!Items, loc'[i] = Trash PROVE Known(i)'
      <3>1. Known(i) /\ rows[n].from # i
        BY <1>4, <2>9 DEF StoreInv, TrashInv
      <3>2. CASE \E r \in Operations!Pending : rows[r].from = i
        BY <1>2, <3>2 DEF Known
      <3>3. CASE \E u \in Threads : \/ th[u].pc = "changed" /\ th[u].arg.from = i
                                    \/ Undoing(u) /\ rows[th[u].arg].from = i
        <4>1. PICK u \in Threads : \/ th[u].pc = "changed" /\ th[u].arg.from = i
                                   \/ Undoing(u) /\ rows[th[u].arg].from = i
          BY <3>3
        <4>2. u # t
          BY <1>1, <1>2, <3>1, <4>1
        <4>3. QED
          BY <1>2, <2>2, <4>1, <4>2 DEF Known
      <3>4. QED
        BY <3>1, <3>2, <3>3 DEF Known
    <2>10. QED
      BY <1>2, <2>8, <2>9 DEF StoreInv, TrashInv
  <1>5. CASE ~(/\ Operations!Return(t, TRUE, com)
               /\ undoneOk' = [undoneOk EXCEPT ![n] = @ + 1]
               /\ \A i \in Operations!Items : loc'[i] = Trash => loc[i] = Trash /\ rows[n].from # i)
    <2>1. /\ loc' = loc /\ undoneOk' = undoneOk /\ th'[t].pc = "failed" /\ th'[t].arg = th[t].arg
          /\ \A u \in Threads \ {t} : th'[u] = th[u]
      BY <1>1, <1>5, TakeBackIs DEF WellFormed
    <2>2. \A u \in Threads : (Undoing(u)' <=> Undoing(u)) /\ (Undoing(u) => th'[u].arg = th[u].arg)
      BY <1>2, <2>1 DEF Undoing
    <2>3. \A u \in Threads : th[u].pc = "changed" => th'[u] = th[u]
      BY <1>2, <2>1
    <2>4. UndoInv'
      BY <1>2, <2>1, <2>2 DEF StoreInv, UndoInv
    <2>5. \A i \in Operations!Items : Known(i) => Known(i)'
      BY <1>2, <2>2, <2>3 DEF Known
    <2>6. QED
      BY <1>2, <2>1, <2>4, <2>5 DEF StoreInv, TrashInv
  <1>6. QED
    BY <1>4, <1>5

\* A row that could not be taken back waits again.
LEMMA PutBackKeepsStore ==
  ASSUME WellFormed, StoreInv, NEW t \in Threads, Operations!PutBack(t)
  PROVE  StoreInv'
  <1>1. PICK n : n = th[t].arg
    OBVIOUS
  <1>2. loc' = loc /\ undoneOk' = undoneOk /\ torn' = torn /\ th[t].pc = "failed" /\ Undoing(t)
    BY DEF Operations!PutBack, Undoing
  <1>3. /\ OthersAside(t) /\ n \in DOMAIN rows /\ Marked(n, FALSE)
        /\ Operations!Pending' = Operations!Pending \cup {n} /\ th'[t].pc \in {"idle", "unwind"}
    BY <1>1, PutBackIs DEF WellFormed
  <1>4. /\ DOMAIN rows' = DOMAIN rows
        /\ \A r \in DOMAIN rows : rows'[r].from = rows[r].from
        /\ \A r \in DOMAIN rows \ {n} : rows'[r].undone <=> rows[r].undone
        /\ ~Undoing(t)'
        /\ \A u \in Threads \ {t} : th'[u] = th[u] /\ (Undoing(u)' <=> Undoing(u))
    BY <1>3 DEF Marked, OthersAside, Undoing, WellFormed, FilesTypes
  <1>5. /\ undoneOk[n] = 0
        /\ \A u \in Threads \ {t} : Undoing(u) => th[u].arg \in DOMAIN rows \ {n}
    BY <1>1, <1>2 DEF StoreInv, UndoInv, WellFormed, ThreadInv, Placed
  <1>6. UndoInv'
    BY <1>2, <1>4, <1>5 DEF StoreInv, UndoInv
  <1>7. ASSUME ~torn, NEW i \in Operations!Items, loc'[i] = Trash PROVE Known(i)'
    <2>1. Known(i)
      BY <1>2, <1>7 DEF StoreInv, TrashInv
    <2>2. CASE \E r \in Operations!Pending : rows[r].from = i
      <3>1. PICK r \in Operations!Pending : rows[r].from = i
        BY <2>2
      <3>2. r \in DOMAIN rows
        BY <3>1 DEF Operations!Pending
      <3>3. QED
        BY <1>3, <1>4, <3>1, <3>2 DEF Known
    <2>3. CASE \E u \in Threads : \/ th[u].pc = "changed" /\ th[u].arg.from = i
                                  \/ Undoing(u) /\ rows[th[u].arg].from = i
      <3>1. PICK u \in Threads : \/ th[u].pc = "changed" /\ th[u].arg.from = i
                                 \/ Undoing(u) /\ rows[th[u].arg].from = i
        BY <2>3
      <3>2. CASE u = t
        BY <1>1, <1>2, <1>3, <1>4, <3>1, <3>2 DEF Known
      <3>3. CASE u # t
        BY <1>4, <1>5, <3>1, <3>3 DEF Known
      <3>4. QED
        BY <3>2, <3>3
    <2>4. QED
      BY <2>1, <2>2, <2>3 DEF Known
  <1>8. QED
    BY <1>2, <1>6, <1>7 DEF StoreInv, TrashInv

\* Requests, plans, the policy: nothing of it touches the store.  The end of the process forgets
\* what the threads know.
LEMMA OutsideKeepsStore ==
  ASSUME WellFormed, StoreInv,
         \/ \E op \in {"move", "copy", "delete", "wipe"}, src, dst \in Paths : Operations!Request(op, src, dst)
         \/ \E kind \in Operations!Kinds : Operations!Add(kind)
         \/ Operations!Forget \/ Operations!Plan \/ Operations!SetReadOnly \/ Operations!Restart
  PROVE  StoreInv'
  <1>1. CASE UNCHANGED <<loc, rows, th, undoneOk, torn>>
    BY <1>1 DEF StoreInv, UndoInv, TrashInv, Known, Undoing, Operations!Pending
  <1>2. CASE Operations!Restart
    <2>1. /\ loc' = loc /\ rows' = rows /\ undoneOk' = undoneOk
          /\ \A t \in Threads : th'[t].pc = "idle"
          /\ torn' = (torn \/ \E t \in Threads : th[t].pc \in {"changed", "popped", "failed"})
          /\ Operations!Pending' = Operations!Pending
      BY <1>2 DEF Operations!Restart, Operations!Idle, Operations!Pending
    <2>2. UndoInv'
      BY <2>1 DEF StoreInv, UndoInv, Undoing
    <2>3. ASSUME ~torn', NEW i \in Operations!Items, loc'[i] = Trash PROVE Known(i)'
      BY <2>1, <2>3 DEF StoreInv, TrashInv, Known, Undoing
    <2>4. QED
      BY <2>2, <2>3 DEF StoreInv, TrashInv
  <1>3. QED
    BY <1>1, <1>2 DEF Operations!Request, Operations!Add, Operations!Forget, Operations!Plan,
                      Operations!SetReadOnly, Operations!fileVars, Operations!batchVars

-----------------------------------------------------------------------------
(* File operations: the steps of batches.                                  *)

Ids(steps)  == {steps[k].id : k \in DOMAIN steps}
Rest(steps) == {steps[k].id : k \in DOMAIN steps \ {1}}
Distinct(steps) == \A k, l \in DOMAIN steps : steps[k].id = steps[l].id => k = l

Done    == {ran[k] : k \in DOMAIN ran}
Owned(t) == IF com[t] = None THEN {} ELSE Ids(com[t].todo)
Left(t) == IF com[t] = None THEN {} ELSE IF th[t].pc = "step" THEN Ids(com[t].todo) ELSE Rest(com[t].todo)

\* A step is planned, held by one commit, or dropped, and what is still ahead was not run.
StepInv ==
  /\ ran \in Seq(Nat) /\ \A k, l \in DOMAIN ran : ran[k] = ran[l] => k = l
  /\ Done \subseteq (1 .. added) \ dropped
  /\ dropped \subseteq 1 .. added
  /\ Ids(plan) \subseteq (1 .. added) \ (dropped \cup Done) /\ Distinct(plan)
  /\ \A t \in Threads :
       /\ Owned(t) \subseteq (1 .. added) \ (dropped \cup Ids(plan))
       /\ Left(t) \cap Done = {}
       /\ com[t] # None => Distinct(com[t].todo)
       /\ \A u \in Threads \ {t} : Owned(t) \cap Owned(u) = {}

\* What is left of the steps after the first has been run.
LEMMA TailIs ==
  ASSUME NEW s \in Seq(Operations!Steps), s # <<>>, Distinct(s)
  PROVE  /\ Ids(Tail(s)) = Rest(s) /\ Distinct(Tail(s)) /\ Rest(s) \subseteq Ids(s)
         /\ Head(s).id \in Ids(s) \ Rest(s) /\ Head(s).id \in Nat
  <1>1. /\ DOMAIN s = 1 .. Len(s) /\ Len(s) \in Nat \ {0}
        /\ DOMAIN Tail(s) = 1 .. Len(s) - 1
        /\ \A k \in 1 .. Len(s) - 1 : Tail(s)[k] = s[k + 1]
    OBVIOUS
  <1>2. Ids(Tail(s)) \subseteq Rest(s)
    <2>1. \A k \in 1 .. Len(s) - 1 : k + 1 \in DOMAIN s \ {1}
      BY <1>1
    <2>2. QED
      BY <1>1, <2>1 DEF Ids, Rest
  <1>3. Rest(s) \subseteq Ids(Tail(s))
    <2>1. ASSUME NEW k \in DOMAIN s \ {1} PROVE k - 1 \in 1 .. Len(s) - 1 /\ Tail(s)[k - 1] = s[k]
      <3>1. k - 1 \in 1 .. Len(s) - 1 /\ (k - 1) + 1 = k
        BY <1>1
      <3>2. QED
        BY <1>1, <3>1
    <2>2. QED
      BY <1>1, <2>1 DEF Ids, Rest
  <1>4. Distinct(Tail(s))
    <2>1. ASSUME NEW k \in 1 .. Len(s) - 1, NEW l \in 1 .. Len(s) - 1, Tail(s)[k].id = Tail(s)[l].id
          PROVE  k = l
      <3>1. k + 1 \in DOMAIN s /\ l + 1 \in DOMAIN s /\ s[k + 1].id = s[l + 1].id
        BY <1>1, <2>1
      <3>2. k + 1 = l + 1
        BY <3>1 DEF Distinct
      <3>3. QED
        BY <3>2
    <2>2. QED
      BY <1>1, <2>1 DEF Distinct
  <1>5. Head(s) = s[1] /\ 1 \in DOMAIN s /\ s[1] \in Operations!Steps
    BY <1>1
  <1>6. Head(s).id \in Ids(s) \ Rest(s)
    BY <1>5 DEF Ids, Rest, Distinct
  <1>7. Head(s).id \in Nat
    BY <1>5 DEF Operations!Steps
  <1>8. QED
    BY <1>2, <1>3, <1>4, <1>6, <1>7 DEF Ids, Rest

\* Thread u holds what it held, and has no more ahead than before.
KeepsSteps(u) ==
  /\ com[u] = None => com'[u] = None
  /\ com[u] # None =>
       com'[u] # None /\ com'[u].todo = com[u].todo /\ (th'[u].pc = "step" => th[u].pc = "step")

\* A thread that is where it was holds the steps it held.
LEMMA SameKeepsSteps ==
  ASSUME NEW u \in Threads, KeepsPlace(u)
  PROVE  KeepsSteps(u)
  BY DEF KeepsPlace, KeepsSteps, SameCounts

\* A thread that holds the steps it held has no more ahead than before.
LEMMA KeptSteps ==
  ASSUME NEW u \in Threads, KeepsSteps(u)
  PROVE  /\ Owned(u)' = Owned(u) /\ Left(u)' \subseteq Left(u)
         /\ com[u] # None => com'[u] # None /\ com'[u].todo = com[u].todo
         /\ com'[u] # None => com[u] # None
  BY DEF KeepsSteps, Owned, Left, Ids, Rest

\* Threads that only hold what they held keep the account of steps.
LEMMA KeepingKeepsSteps ==
  ASSUME StepInv, UNCHANGED <<plan, added, ran, dropped>>, \A u \in Threads : KeepsSteps(u)
  PROVE  StepInv'
  <1>1. Done' = Done /\ Ids(plan)' = Ids(plan) /\ (Distinct(plan)' <=> Distinct(plan))
    BY DEF Done, Ids, Distinct
  <1>2. \A u \in Threads :
          /\ Owned(u)' = Owned(u) /\ Left(u)' \subseteq Left(u)
          /\ com'[u] # None => com[u] # None /\ com'[u].todo = com[u].todo
    BY KeptSteps
  <1>3. \A u \in Threads : com'[u] # None => Distinct(com'[u].todo)
    BY <1>2 DEF StepInv
  <1>4. QED
    BY <1>1, <1>2, <1>3 DEF StepInv

\* A thread that makes a directory, takes a row or returns holds its steps and is not at the next.
LEMMA WorkKeepsSteps ==
  ASSUME WellFormed, NEW t \in Threads, com[t] # None => com[t].todo # <<>>,
         th[t].pc \in {"idle", "step", "unwind", "popped"},
         \/ rows' = rows /\ \E x \in Paths : Operations!MakeDirectory(t, x)
         \/ Operations!PopRow(t)
         \/ rows' = rows /\ \E ok \in BOOLEAN : Operations!Return(t, ok, com)
  PROVE  th'[t].pc # "step" /\ \A u \in Threads : KeepsSteps(u)
  <1> USE DEF WellFormed
  <1>1. ASSUME NEW ok \in BOOLEAN, Operations!Return(t, ok, com), rows' = rows
        PROVE  th'[t].pc # "step" /\ \A u \in Threads : KeepsSteps(u)
    <2>1. th'[t].pc # "step" /\ \A u \in Threads \ {t} : KeepsPlace(u)
      BY <1>1, ReturnKeepsThreads
    <2>2. KeepsSteps(t)
      BY <1>1, <2>1, ReturnIs DEF FilesTypes, KeepsSteps, SameCounts
    <2>3. QED
      BY <2>1, <2>2, SameKeepsSteps
  <1>2. ASSUME NEW x \in Paths, Operations!MakeDirectory(t, x), rows' = rows
        PROVE  th'[t].pc # "step" /\ \A u \in Threads : KeepsSteps(u)
    <2>1. CASE Operations!Return(t, FALSE, com)
      BY <1>1, <1>2, <2>1
    <2>2. CASE ~Operations!Return(t, FALSE, com)
      BY <1>2, <2>2, MakeIs DEF KeepsSteps
    <2>3. QED
      BY <2>1, <2>2
  <1>3. CASE Operations!PopRow(t)
    <2>1. CASE Operations!Return(t, FALSE, com) /\ rows' = rows
      BY <1>1, <2>1
    <2>2. CASE ~(Operations!Return(t, FALSE, com) /\ rows' = rows)
      <3>1. PICK n \in DOMAIN rows : Taken(t, n)
        BY <1>3, <2>2, PopIs
      <3>2. th'[t].pc # "step" /\ KeepsSteps(t)
        BY <3>1 DEF Taken, KeepsSteps
      <3>3. QED
        BY <3>1, <3>2, OthersKeepPlace, SameKeepsSteps DEF Taken
    <2>3. QED
      BY <2>1, <2>2
  <1>4. QED
    BY <1>1, <1>2, <1>3

\* Operations on files run no step of a batch.
LEMMA OperationKeepsSteps ==
  ASSUME WellFormed, StepInv, NEW t \in Threads,
         \/ \E x \in Paths : Operations!CreateDirectory(t, x)
         \/ Operations!PushRow(t) \/ Operations!Confirm(t) \/ Operations!Undo(t)
         \/ Operations!TakeBack(t) \/ Operations!PutBack(t) \/ Operations!Unwind(t)
  PROVE  StepInv'
  <1> USE DEF WellFormed
  <1>1. UNCHANGED <<plan, added, ran, dropped>>
    BY DEF Operations!CreateDirectory, Operations!PushRow, Operations!Confirm, Operations!Undo,
           Operations!TakeBack, Operations!PutBack, Operations!Unwind, Operations!batchVars
  <1>2. com[t] # None => com[t].todo # <<>> \/ th[t].pc = "step"
    BY DEF ThreadInv, Placed
  <1>3. \A u \in Threads : KeepsSteps(u)
    <2>1. ASSUME NEW x \in Paths, Operations!CreateDirectory(t, x) PROVE \A u \in Threads : KeepsSteps(u)
      BY <1>2, <2>1, WorkKeepsSteps DEF Operations!CreateDirectory
    <2>2. CASE Operations!PushRow(t)
      <3>1. KeepsSteps(t)
        BY <2>2, PushIs DEF KeepsSteps
      <3>2. QED
        BY <2>2, <3>1, PushIs, OthersKeepPlace, SameKeepsSteps DEF KeepsSteps
    <2>3. CASE Operations!Confirm(t)
      <3>1. KeepsSteps(t)
        BY <2>3, ConfirmIs DEF KeepsSteps
      <3>2. QED
        BY <2>3, <3>1, ConfirmIs DEF KeepsSteps
    <2>4. CASE Operations!Undo(t)
      BY <1>2, <2>4, WorkKeepsSteps DEF Operations!Undo
    <2>5. CASE Operations!TakeBack(t)
      <3>1. CASE Operations!Return(t, TRUE, com)
        BY <1>2, <2>5, <3>1, WorkKeepsSteps DEF Operations!TakeBack
      <3>2. CASE ~Operations!Return(t, TRUE, com)
        BY <2>5, <3>2, TakeBackIs DEF KeepsSteps
      <3>3. QED
        BY <3>1, <3>2
    <2>6. CASE Operations!PutBack(t)
      <3>1. KeepsSteps(t)
        BY <2>6, PutBackIs DEF KeepsSteps
      <3>2. QED
        BY <2>6, <3>1, PutBackIs, OthersKeepPlace, SameKeepsSteps DEF KeepsSteps
    <2>7. CASE Operations!Unwind(t)
      BY <1>2, <2>7, WorkKeepsSteps DEF Operations!Unwind
    <2>8. QED
      BY <2>1, <2>2, <2>3, <2>4, <2>5, <2>6, <2>7
  <1>4. QED
    BY <1>1, <1>3, KeepingKeepsSteps

\* The step that is run was ahead, and is not ahead of anybody any more.
LEMMA StepKeepsSteps ==
  ASSUME WellFormed, StepInv, NEW t \in Threads, Operations!Step(t)
  PROVE  StepInv'
  <1>1. PICK s : s = com[t].todo
    OBVIOUS
  <1>2. PICK h : h = Head(s).id
    OBVIOUS
  <1>3. /\ th[t].pc = "step" /\ com[t] # None /\ s # <<>> /\ ran' = Append(ran, h)
        /\ UNCHANGED <<plan, added, dropped>>
    BY <1>1, <1>2, StepIs
  <1>4. th'[t].pc # "step" /\ \A u \in Threads : KeepsSteps(u)
    BY <1>1, <1>3, StepIs, WorkKeepsSteps
  <1>5. s \in Seq(Operations!Steps) /\ Distinct(s)
    <2>1. com[t] \in Operations!Commits
      BY <1>3 DEF WellFormed, FilesTypes, Coms
    <2>2. QED
      BY <1>1, <1>3, <2>1, CommitTypes DEF StepInv
  <1>6. h \in Ids(s) \ Rest(s) /\ h \in Nat /\ Rest(s) \subseteq Ids(s)
    BY <1>2, <1>3, <1>5, TailIs
  <1>7. Owned(t) = Ids(s) /\ Left(t) = Ids(s)
    BY <1>1, <1>3 DEF Owned, Left
  <1>8. h \in (1 .. added) \ (dropped \cup Done \cup Ids(plan))
    BY <1>6, <1>7 DEF StepInv
  <1>9. /\ ran' \in Seq(Nat) /\ Done' = Done \cup {h}
        /\ \A k, l \in DOMAIN ran' : ran'[k] = ran'[l] => k = l
    <2>1. ran \in Seq(Nat)
      BY DEF StepInv
    <2>2. PICK n : n = Len(ran) + 1
      OBVIOUS
    <2>3. /\ ran' \in Seq(Nat) /\ DOMAIN ran' = DOMAIN ran \cup {n} /\ ran'[n] = h /\ n \notin DOMAIN ran
          /\ \A k \in DOMAIN ran : ran'[k] = ran[k]
      BY <1>3, <1>6, <2>1, <2>2
    <2>4. QED
      BY <1>8, <2>3 DEF StepInv, Done
  <1>10. Ids(plan)' = Ids(plan) /\ (Distinct(plan)' <=> Distinct(plan))
    BY <1>3 DEF Ids, Distinct
  <1>11. \A u \in Threads :
           /\ Owned(u)' = Owned(u) /\ Left(u)' \subseteq Left(u)
           /\ com'[u] # None => com[u] # None /\ com'[u].todo = com[u].todo
    BY <1>4, KeptSteps
  <1>12. Left(t)' = Rest(s)
    BY <1>1, <1>3, <1>4, KeptSteps DEF Left, Rest
  <1>13. \A u \in Threads : Left(u)' \cap Done' = {}
    <2>1. \A u \in Threads : Left(u) \subseteq Owned(u)
      BY DEF Left, Owned, Ids, Rest
    <2>2. ASSUME NEW u \in Threads \ {t} PROVE h \notin Left(u)
      BY <1>6, <1>7, <2>1 DEF StepInv
    <2>3. h \notin Left(t)'
      BY <1>6, <1>12
    <2>4. \A u \in Threads : Left(u) \cap Done = {}
      BY DEF StepInv
    <2>5. QED
      BY <1>9, <1>11, <2>2, <2>3, <2>4
  <1>14. \A u \in Threads : com'[u] # None => Distinct(com'[u].todo)
    BY <1>11 DEF StepInv
  <1>15. /\ \A u \in Threads : Owned(u)' \subseteq (1 .. added') \ (dropped' \cup Ids(plan)')
         /\ \A u \in Threads : \A v \in Threads \ {u} : Owned(u)' \cap Owned(v)' = {}
    BY <1>3, <1>10, <1>11 DEF StepInv
  <1>16. /\ Done' \subseteq (1 .. added') \ dropped' /\ dropped' \subseteq 1 .. added'
         /\ Ids(plan)' \subseteq (1 .. added') \ (dropped' \cup Done') /\ Distinct(plan)'
    BY <1>3, <1>8, <1>9, <1>10 DEF StepInv
  <1>17. QED
    BY <1>9, <1>13, <1>14, <1>15, <1>16 DEF StepInv

\* A commit takes the plan, goes to the next step, or ends.
LEMMA CommitKeepsSteps ==
  ASSUME WellFormed, StepInv, NEW t \in Threads,
         Operations!Commit(t) \/ Operations!Count(t) \/ Operations!CommitEnds(t)
  PROVE  StepInv'
  <1> USE DEF WellFormed
  <1>0. Ids(<<>>) = {} /\ Distinct(<<>>)
    BY DEF Ids, Distinct
  <1>1. CASE Operations!Commit(t) /\ Operations!Barred
    <2>1. /\ plan' = <<>> /\ dropped' = dropped \cup Ids(plan) /\ UNCHANGED <<th, com, added, ran>>
      BY <1>1 DEF Operations!Commit, Operations!PlanAfter, Operations!PlannedIds, Ids
    <2>2. Done' = Done /\ Ids(plan)' = {} /\ Distinct(plan)'
      BY <1>0, <2>1 DEF Done
    <2>3. \A u \in Threads : Owned(u)' = Owned(u) /\ Left(u)' = Left(u)
      BY <2>1 DEF Owned, Left, Ids, Rest
    <2>4. QED
      BY <2>1, <2>2, <2>3 DEF StepInv
  <1>2. CASE Operations!Commit(t) /\ ~Operations!Barred
    <2>1. com[t] = None
      BY <1>2 DEF Operations!Commit, ThreadInv, Placed
    <2>2. /\ plan' = <<>> /\ UNCHANGED <<added, ran, dropped>>
          /\ th' = [th EXCEPT ![t] = [pc |-> "step", arg |-> None]]
          /\ \E d : d.todo = plan /\ com' = [com EXCEPT ![t] = d]
      BY <1>2 DEF Operations!Commit, Operations!PlanAfter, Operations!Goes
    <2>3. /\ th'[t].pc = "step" /\ com'[t].todo = plan
          /\ \A u \in Threads \ {t} : com'[u] = com[u] /\ th'[u] = th[u]
      BY <2>2 DEF FilesTypes, Ths, Coms
    <2>4. Done' = Done /\ Ids(plan)' = {} /\ Distinct(plan)'
      BY <1>0, <2>2 DEF Done
    <2>5. \A u \in Threads \ {t} : Owned(u)' = Owned(u) /\ Left(u)' = Left(u)
      BY <2>3 DEF Owned, Left, Ids, Rest
    <2>6. Owned(t)' \subseteq Ids(plan) /\ Left(t)' \subseteq Ids(plan)
      BY <2>3 DEF Owned, Left
    <2>7. \A u \in Threads : com'[u] # None => Distinct(com'[u].todo)
      BY <2>3 DEF StepInv
    <2>8. \A u \in Threads : \A v \in Threads \ {u} : Owned(u)' \cap Owned(v)' = {}
      BY <2>5, <2>6 DEF StepInv
    <2>9. \A u \in Threads : Left(u)' \cap Done' = {} /\ Owned(u)' \subseteq (1 .. added) \ dropped
      BY <2>4, <2>5, <2>6 DEF StepInv
    <2>10. QED
      BY <2>2, <2>4, <2>7, <2>8, <2>9 DEF StepInv
  <1>3. CASE Operations!Count(t)
    <2>1. PICK s : s = com[t].todo
      OBVIOUS
    <2>2. com[t] # None /\ com[t] \in Operations!Commits /\ s # <<>> /\ th[t].pc = "count"
      BY <1>3, <2>1 DEF Operations!Count, ThreadInv, Placed, FilesTypes, Coms
    <2>3. s \in Seq(Operations!Steps) /\ Distinct(s)
      BY <2>1, <2>2, CommitTypes DEF StepInv
    <2>4. /\ Ids(Tail(s)) = Rest(s) /\ Distinct(Tail(s)) /\ Rest(s) \subseteq Ids(s)
      BY <2>2, <2>3, TailIs
    <2>5. /\ UNCHANGED <<plan, added, ran, dropped>>
          /\ com'[t].todo = Tail(s)
          /\ \A u \in Threads \ {t} : com'[u] = com[u] /\ th'[u] = th[u]
      <3>1. /\ com' = [com EXCEPT ![t].created = com'[t].created, ![t].before = com'[t].before, ![t].todo = Tail(@)]
            /\ th' = [th EXCEPT ![t] = [pc |-> "step", arg |-> None]]
        BY <1>3, <2>2 DEF Operations!Count, Operations!Goes, FilesTypes, Coms, Operations!Commits
      <3>2. QED
        BY <1>3, <2>1, <2>2, <3>1 DEF Operations!Count, FilesTypes, Coms, Ths, Operations!Commits
    <2>6. Done' = Done /\ Ids(plan)' = Ids(plan) /\ (Distinct(plan)' <=> Distinct(plan))
      BY <2>5 DEF Done, Ids, Distinct
    <2>7. \A u \in Threads \ {t} : Owned(u)' = Owned(u) /\ Left(u)' = Left(u)
      BY <2>5 DEF Owned, Left, Ids, Rest
    <2>8. Owned(t) = Ids(s) /\ Left(t) = Rest(s) /\ Owned(t)' \subseteq Rest(s)
      BY <2>1, <2>2, <2>4, <2>5 DEF Owned, Left
    <2>9. Left(t)' \subseteq Rest(s)
      <3>1. Rest(Tail(s)) \subseteq Ids(Tail(s))
        BY DEF Ids, Rest
      <3>2. QED
        BY <2>4, <2>5, <3>1 DEF Left
    <2>10. \A u \in Threads : com'[u] # None => Distinct(com'[u].todo)
      BY <2>4, <2>5 DEF StepInv
    <2>11. \A u \in Threads : \A v \in Threads \ {u} : Owned(u)' \cap Owned(v)' = {}
      BY <2>4, <2>7, <2>8 DEF StepInv
    <2>12. \A u \in Threads : Left(u)' \cap Done' = {} /\ Owned(u)' \subseteq Owned(u)
      BY <2>4, <2>6, <2>7, <2>8, <2>9 DEF StepInv
    <2>13. QED
      BY <2>5, <2>6, <2>10, <2>11, <2>12 DEF StepInv
  <1>4. CASE Operations!CommitEnds(t)
    <2>1. /\ UNCHANGED <<plan, added, ran, dropped>>
          /\ com'[t] = None /\ \A u \in Threads \ {t} : com'[u] = com[u] /\ th'[u] = th[u]
      BY <1>4 DEF Operations!CommitEnds, FilesTypes, Coms, Ths
    <2>2. Done' = Done /\ Ids(plan)' = Ids(plan) /\ (Distinct(plan)' <=> Distinct(plan))
      BY <2>1 DEF Done, Ids, Distinct
    <2>3. /\ \A u \in Threads : Owned(u)' \subseteq Owned(u) /\ Left(u)' \subseteq Left(u)
          /\ \A u \in Threads : com'[u] # None => com[u] # None /\ com'[u].todo = com[u].todo
      BY <2>1 DEF Owned, Left, Ids, Rest
    <2>4. \A u \in Threads : com'[u] # None => Distinct(com'[u].todo)
      BY <2>3 DEF StepInv
    <2>5. QED
      BY <2>1, <2>2, <2>3, <2>4 DEF StepInv
  <1>5. QED
    BY <1>1, <1>2, <1>3, <1>4

\* The plan grows by a step of its own or is dropped; the end of the process drops it too.
LEMMA OutsideKeepsSteps ==
  ASSUME WellFormed, StepInv,
         \/ \E op \in {"move", "copy", "delete", "wipe"}, src, dst \in Paths : Operations!Request(op, src, dst)
         \/ \E kind \in Operations!Kinds : Operations!Add(kind)
         \/ Operations!Forget \/ Operations!Plan \/ Operations!SetReadOnly \/ Operations!Restart
  PROVE  StepInv'
  <1>0. Ids(<<>>) = {} /\ Distinct(<<>>)
    BY DEF Ids, Distinct
  <1>1. CASE UNCHANGED <<th, com, plan, added, ran, dropped>>
    <2>1. \A u \in Threads : Owned(u)' = Owned(u) /\ Left(u)' = Left(u)
      BY <1>1 DEF Owned, Left, Ids, Rest
    <2>2. /\ Done' = Done /\ Ids(plan)' = Ids(plan) /\ (Distinct(plan)' <=> Distinct(plan))
          /\ \A u \in Threads : com[u] # None => (Distinct(com[u].todo)' <=> Distinct(com[u].todo))
      BY <1>1 DEF Done, Ids, Distinct
    <2>3. QED
      BY <1>1, <2>1, <2>2 DEF StepInv
  <1>2. ASSUME NEW kind \in Operations!Kinds, Operations!Add(kind) PROVE StepInv'
    <2>1. PICK n : n = Len(plan) + 1
      OBVIOUS
    <2>2. PICK new : new = [id |-> added + 1, kind |-> kind]
      OBVIOUS
    <2>3. /\ plan \in Seq(Operations!Steps) /\ added \in Nat /\ added' = added + 1 /\ plan' = Append(plan, new)
          /\ UNCHANGED <<th, com, ran, dropped>> /\ new \in Operations!Steps /\ new.id = added + 1
      BY <1>2, <2>2, FilesAssumption DEF Operations!Add, WellFormed, FilesTypes, Operations!Steps
    <2>4. /\ DOMAIN plan' = DOMAIN plan \cup {n} /\ n \notin DOMAIN plan /\ plan'[n] = new
          /\ \A k \in DOMAIN plan : plan'[k] = plan[k]
      BY <2>1, <2>3
    <2>5. Ids(plan)' = Ids(plan) \cup {added + 1}
      BY <2>3, <2>4 DEF Ids
    <2>6. 1 .. added' = (1 .. added) \cup {added + 1} /\ added + 1 \notin 1 .. added
      BY <2>3
    <2>7. \A k \in DOMAIN plan : plan[k].id \in 1 .. added
      BY DEF StepInv, Ids
    <2>8. Distinct(plan)'
      <3>1. Distinct(plan)
        BY DEF StepInv
      <3>2. QED
        BY <2>3, <2>4, <2>6, <2>7, <3>1 DEF Distinct
    <2>9. Done' = Done /\ \A u \in Threads : Owned(u)' = Owned(u) /\ Left(u)' = Left(u)
      BY <2>3 DEF Done, Owned, Left, Ids, Rest
    <2>10. ran' \in Seq(Nat) /\ \A k, l \in DOMAIN ran' : ran'[k] = ran'[l] => k = l
      BY <2>3 DEF StepInv
    <2>11. /\ Done' \subseteq (1 .. added') \ dropped' /\ dropped' \subseteq 1 .. added'
           /\ Ids(plan)' \subseteq (1 .. added') \ (dropped' \cup Done')
      BY <2>3, <2>5, <2>6, <2>9 DEF StepInv
    <2>12. \A u \in Threads :
             /\ Owned(u)' \subseteq (1 .. added') \ (dropped' \cup Ids(plan)')
             /\ Left(u)' \cap Done' = {}
             /\ com'[u] # None => Distinct(com'[u].todo)
             /\ \A v \in Threads \ {u} : Owned(u)' \cap Owned(v)' = {}
      BY <2>3, <2>5, <2>6, <2>9 DEF StepInv
    <2>13. QED
      BY <2>8, <2>10, <2>11, <2>12 DEF StepInv
  <1>3. CASE Operations!Plan \/ Operations!Restart
    <2>1. /\ plan' = <<>> /\ dropped' = dropped \cup Ids(plan) /\ UNCHANGED <<added, ran>>
          /\ UNCHANGED <<th, com>> \/ (\A u \in Threads : com'[u] = None)
      BY <1>3 DEF Operations!Plan, Operations!Restart, Operations!PlannedIds, Ids
    <2>2. Done' = Done /\ Ids(plan)' = {} /\ Distinct(plan)'
      BY <1>0, <2>1 DEF Done
    <2>3. \A u \in Threads :
            /\ Owned(u)' \subseteq Owned(u) /\ Left(u)' \subseteq Left(u)
            /\ com'[u] # None => com[u] # None /\ com'[u].todo = com[u].todo
      BY <2>1 DEF Owned, Left, Ids, Rest
    <2>4. \A u \in Threads : com'[u] # None => Distinct(com'[u].todo)
      BY <2>3 DEF StepInv
    <2>5. QED
      BY <2>1, <2>2, <2>3, <2>4 DEF StepInv
  <1>4. QED
    BY <1>1, <1>2, <1>3 DEF Operations!Request, Operations!Forget, Operations!SetReadOnly, Operations!batchVars

-----------------------------------------------------------------------------
(* File operations: what a batch counts.                                   *)

\* A batch that has the store for itself: its rows are the newest, and what it counted is how
\* many of them there are.
Counts(t) ==
  /\ com[t].mine \subseteq DOMAIN rows
  /\ com[t].undone \subseteq com[t].mine
  /\ com[t].mine \ com[t].undone \subseteq Operations!Pending
  /\ \A r \in Operations!Pending \ com[t].mine, s \in com[t].mine : r < s

\* Until it fails, what it has not counted yet is what the store has grown by.
GoesOn(t) ==
  /\ com[t].undone = {}
  /\ ~Undoing(t)
  /\ Cardinality(Operations!Pending) - com[t].before = Cardinality(com[t].mine) - com[t].created
  /\ Cardinality(Operations!Pending) >= com[t].before
  /\ th[t].pc # "count" => Cardinality(Operations!Pending) = com[t].before

\* While it unwinds, it has no more tries than rows of its own left.
Unwinds(t) ==
  /\ Undoing(t) => th[t].arg \in com[t].undone
  /\ com[t].left + Cardinality(com[t].undone)
       <= Cardinality(com[t].mine) + (IF Undoing(t) THEN 1 ELSE 0)

BatchOk(t) ==
  com[t] # None /\ com[t].alone =>
    Counts(t) /\ (IF com[t].unwinding THEN Unwinds(t) ELSE GoesOn(t))

BatchInv == \A t \in Threads : BatchOk(t)

\* The numbers a batch counts with.
LEMMA CommitNumbers ==
  ASSUME WellFormed, NEW t \in Threads, com[t] # None
  PROVE  /\ IsFiniteSet(com[t].mine) /\ IsFiniteSet(com[t].undone)
         /\ Cardinality(com[t].mine) \in Nat /\ Cardinality(com[t].undone) \in Nat
         /\ IsFiniteSet(Operations!Pending) /\ Cardinality(Operations!Pending) \in Nat
         /\ com[t].before \in Int /\ com[t].created \in Int /\ com[t].left \in Int
         /\ com[t].unwinding \in BOOLEAN /\ com[t].alone \in BOOLEAN
  <1>1. com[t] \in Operations!Commits
    BY DEF WellFormed, FilesTypes, Coms
  <1>2. com[t].mine \in SUBSET (1 .. MaxRows) /\ com[t].undone \in SUBSET (1 .. MaxRows)
    BY <1>1, CommitTypes
  <1>3. IsFiniteSet(1 .. MaxRows)
    BY FS_Interval, FilesAssumption
  <1>4. IsFiniteSet(com[t].mine) /\ IsFiniteSet(com[t].undone)
    BY <1>2, <1>3, FS_Subset
  <1>5. Cardinality(com[t].mine) \in Nat /\ Cardinality(com[t].undone) \in Nat
    BY <1>4, FS_CardinalityType
  <1>6. IsFiniteSet(Operations!Pending) /\ Cardinality(Operations!Pending) \in Nat
    BY PendingIs DEF WellFormed, FilesTypes
  <1>7. /\ com[t].before \in Int /\ com[t].created \in Int /\ com[t].left \in Int
        /\ com[t].unwinding \in BOOLEAN /\ com[t].alone \in BOOLEAN
    BY <1>1, CommitTypes
  <1>8. QED
    BY <1>4, <1>5, <1>6, <1>7

\* What others do either leaves the store alone or puts the batch aside.
LEMMA OthersKeepBatches ==
  ASSUME BatchInv, NEW t \in Threads,
         \/ rows' = rows /\ \A u \in Threads \ {t} : th'[u] = th[u] /\ com'[u] = com[u]
         \/ OthersAside(t)
  PROVE  \A u \in Threads \ {t} : BatchOk(u)'
  <1>1. ASSUME NEW u \in Threads \ {t}, rows' = rows, th'[u] = th[u], com'[u] = com[u]
        PROVE  BatchOk(u)'
    <2>1. Operations!Pending' = Operations!Pending /\ (Undoing(u)' <=> Undoing(u))
      BY <1>1 DEF Operations!Pending, Undoing
    <2>2. BatchOk(u)
      BY DEF BatchInv
    <2>3. QED
      BY <1>1, <2>1, <2>2 DEF BatchOk, Counts, GoesOn, Unwinds
  <1>2. ASSUME OthersAside(t), NEW u \in Threads \ {t} PROVE BatchOk(u)'
    BY <1>2 DEF OthersAside, BatchOk
  <1>3. QED
    BY <1>1, <1>2

\* An operation of a batch that leaves the store alone and returns.
LEMMA ReturnKeepsBatch ==
  ASSUME WellFormed, NEW t \in Threads, BatchOk(t), NEW ok \in BOOLEAN, Operations!Return(t, ok, com),
         rows' = rows, com[t] # None => com[t].todo # <<>>,
         com[t] # None /\ ~com[t].unwinding => th[t].pc # "count"
  PROVE  BatchOk(t)'
  <1> USE DEF WellFormed
  <1>1. CASE com[t] = None
    BY <1>1, ReturnIs DEF BatchOk, FilesTypes
  <1>2. CASE com[t] # None /\ com[t].alone
    <2>1. ~Undoing(t)'
      BY ReturnKeepsThreads
    <2>2. /\ com'[t] # None /\ SameCounts(com'[t], com[t]) /\ com'[t].alone
          /\ com[t].unwinding => com'[t].unwinding /\ com'[t].left = com[t].left - 1
          /\ ~com[t].unwinding /\ ok => th'[t].pc = "count" /\ com' = com
          /\ ~com[t].unwinding /\ ~ok => com'[t].unwinding /\ com'[t].left = com[t].created
      BY <1>2, ReturnIs DEF FilesTypes
    <2>3. Operations!Pending' = Operations!Pending /\ DOMAIN rows' = DOMAIN rows
      BY DEF Operations!Pending
    <2>4. Counts(t) /\ Counts(t)'
      BY <1>2, <2>2, <2>3 DEF BatchOk, Counts, SameCounts
    <2>5. /\ Cardinality(com[t].mine) \in Nat /\ Cardinality(com[t].undone) \in Nat
          /\ Cardinality(Operations!Pending) \in Nat
          /\ com[t].before \in Int /\ com[t].created \in Int /\ com[t].left \in Int
      BY <1>2, CommitNumbers
    <2>6. CASE com[t].unwinding
      <3>1. com[t].left + Cardinality(com[t].undone) <= Cardinality(com[t].mine) + 1
        BY <1>2, <2>5, <2>6 DEF BatchOk, Unwinds
      <3>2. Unwinds(t)'
        BY <2>1, <2>2, <2>5, <2>6, <3>1 DEF Unwinds, SameCounts
      <3>3. QED
        BY <2>2, <2>4, <2>6, <3>2 DEF BatchOk
    <2>7. CASE ~com[t].unwinding
      <3>1. GoesOn(t)
        BY <1>2, <2>7 DEF BatchOk
      <3>2. CASE ok
        <4>1. GoesOn(t)' /\ ~com'[t].unwinding
          BY <2>1, <2>2, <2>3, <2>7, <3>1, <3>2 DEF GoesOn
        <4>2. QED
          BY <2>4, <4>1 DEF BatchOk
      <3>3. CASE ~ok
        <4>1. com[t].created = Cardinality(com[t].mine) /\ com[t].undone = {}
          BY <1>2, <2>5, <2>7, <3>1 DEF GoesOn
        <4>2. Cardinality({}) = 0
          BY FS_EmptySet
        <4>3. com'[t].unwinding /\ com'[t].left = Cardinality(com[t].mine) /\ com'[t].undone = {}
              /\ com'[t].mine = com[t].mine
          BY <2>2, <2>7, <3>3, <4>1 DEF SameCounts
        <4>4. Unwinds(t)'
          BY <2>1, <2>5, <4>2, <4>3 DEF Unwinds
        <4>5. QED
          BY <2>4, <4>3, <4>4 DEF BatchOk
      <3>4. QED
        BY <3>2, <3>3
    <2>8. QED
      BY <2>6, <2>7
  <1>3. CASE com[t] # None /\ ~com[t].alone
    BY <1>3, ReturnIs DEF BatchOk, FilesTypes
  <1>4. QED
    BY <1>1, <1>2, <1>3

\* The row a batch takes while it unwinds is its own: it still has one, and its rows are the newest.
LEMMA TakingKeepsBatch ==
  ASSUME WellFormed, NEW t \in Threads, BatchOk(t), Takes(t),
         com[t] # None /\ com[t].unwinding => com[t].left > 0
  PROVE  BatchOk(t)'
  <1>1. PICK n \in DOMAIN rows : Taken(t, n) /\ Operations!Pending' = Operations!Pending \ {n}
    BY DEF Takes
  <1>2. CASE com[t] = None \/ ~(com'[t].alone)
    BY <1>1, <1>2 DEF Taken, BatchOk
  <1>3. CASE com[t] # None /\ com'[t].alone
    <2>1. /\ com[t].alone /\ com[t].unwinding /\ com'[t] # None /\ com'[t].unwinding
          /\ com'[t].left = com[t].left /\ com'[t].mine = com[t].mine
          /\ com'[t].undone = com[t].undone \cup {n}
          /\ th'[t].pc = "popped" /\ th'[t].arg = n
          /\ n \in Operations!Pending /\ \A s \in Operations!Pending : s <= n
          /\ DOMAIN rows' = DOMAIN rows
      BY <1>1, <1>3 DEF Taken, Marked, WellFormed, FilesTypes
    <2>2. ~Undoing(t) /\ Undoing(t)'
      BY <2>1 DEF Takes, Undoing
    <2>3. Counts(t) /\ Unwinds(t)
      BY <1>3, <2>1 DEF BatchOk
    <2>4. /\ IsFiniteSet(com[t].mine) /\ IsFiniteSet(com[t].undone)
          /\ Cardinality(com[t].mine) \in Nat /\ Cardinality(com[t].undone) \in Nat
          /\ com[t].left \in Int
      BY <1>3, CommitNumbers
    <2>5. com[t].left > 0
      BY <1>3, <2>1
    <2>6. Cardinality(com[t].undone) < Cardinality(com[t].mine)
      BY <2>2, <2>3, <2>4, <2>5 DEF Unwinds
    <2>7. com[t].undone # com[t].mine
      BY <2>4, <2>6
    <2>8. PICK s \in com[t].mine : s \in Operations!Pending
      BY <2>3, <2>7 DEF Counts
    <2>9. n \in com[t].mine
      <3>1. s <= n /\ s \in Nat /\ n \in Nat
        BY <2>1, <2>8, PendingIs DEF WellFormed, FilesTypes
      <3>2. SUFFICES ASSUME n \notin com[t].mine PROVE FALSE
        OBVIOUS
      <3>3. n < s
        BY <2>1, <2>3, <2>8, <3>2 DEF Counts
      <3>4. QED
        BY <3>1, <3>3
    <2>10. Counts(t)'
      BY <1>1, <2>1, <2>3, <2>9 DEF Counts
    <2>11. Cardinality(com[t].undone \cup {n}) \in Nat
           /\ Cardinality(com[t].undone \cup {n}) <= Cardinality(com[t].undone) + 1
      <3>1. Cardinality(com[t].undone \cup {n}) =
              IF n \in com[t].undone THEN Cardinality(com[t].undone) ELSE Cardinality(com[t].undone) + 1
        BY <2>4, FS_AddElement
      <3>2. QED
        BY <2>4, <3>1
    <2>12. Unwinds(t)'
      <3>1. com[t].left + Cardinality(com[t].undone) <= Cardinality(com[t].mine)
        BY <2>2, <2>3, <2>4 DEF Unwinds
      <3>2. com'[t].left + Cardinality(com'[t].undone) <= Cardinality(com'[t].mine) + 1
        BY <2>1, <2>4, <2>11, <3>1
      <3>3. QED
        BY <2>1, <2>2, <3>2 DEF Unwinds
    <2>13. QED
      BY <2>1, <2>10, <2>12 DEF BatchOk
  <1>4. QED
    BY <1>2, <1>3

\* A row that a batch records is its own, and newer than all others.
LEMMA PushKeepsBatch ==
  ASSUME WellFormed, NEW t \in Threads, BatchOk(t), Operations!PushRow(t)
  PROVE  BatchOk(t)'
  <1>1. PICK n : n = Len(rows) + 1
    OBVIOUS
  <1>2. CASE com[t] = None \/ ~com[t].alone
    <2>1. com[t] = None => com'[t] = None
      BY PushIs DEF WellFormed
    <2>2. com[t] # None => com'[t].alone = com[t].alone
      BY PushIs DEF WellFormed
    <2>3. QED
      BY <1>2, <2>1, <2>2 DEF BatchOk
  <1>3. CASE com[t] # None /\ com[t].alone
    <2>1. /\ th[t].pc = "changed" /\ ~com[t].unwinding
          /\ com'[t] # None /\ th'[t].pc = "count" /\ ~com'[t].unwinding
          /\ com'[t].before = com[t].before
          /\ com'[t].created = com[t].created /\ com'[t].mine = com[t].mine \cup {n}
          /\ com'[t].undone = com[t].undone /\ com'[t].alone = com[t].alone
          /\ Operations!Pending' = Operations!Pending \cup {n}
          /\ rows' = Append(rows, th[t].arg)
      BY <1>1, <1>3, PushIs DEF WellFormed, ThreadInv, Placed, Operations!PushRow
    <2>2. /\ DOMAIN rows' = DOMAIN rows \cup {n} /\ n \notin DOMAIN rows /\ n \in Nat
          /\ \A r \in DOMAIN rows : r < n
      BY <1>1, <2>1 DEF WellFormed, FilesTypes
    <2>3. Counts(t) /\ GoesOn(t)
      BY <1>3, <2>1 DEF BatchOk
    <2>4. /\ IsFiniteSet(com[t].mine) /\ Cardinality(com[t].mine) \in Nat
          /\ IsFiniteSet(Operations!Pending) /\ Cardinality(Operations!Pending) \in Nat
          /\ com[t].before \in Int /\ com[t].created \in Int
      BY <1>3, CommitNumbers
    <2>5. n \notin com[t].mine /\ n \notin Operations!Pending /\ Operations!Pending \subseteq DOMAIN rows
      BY <2>2, <2>3 DEF Counts, Operations!Pending
    <2>6. /\ Cardinality(com[t].mine \cup {n}) = Cardinality(com[t].mine) + 1
          /\ Cardinality(Operations!Pending \cup {n}) = Cardinality(Operations!Pending) + 1
      BY <2>4, <2>5, FS_AddElement
    <2>7. Counts(t)'
      <3>1. com'[t].mine \subseteq DOMAIN rows' /\ com'[t].undone \subseteq com'[t].mine
        BY <2>1, <2>2, <2>3 DEF Counts
      <3>2. com'[t].mine \ com'[t].undone \subseteq Operations!Pending'
        BY <2>1, <2>3 DEF Counts
      <3>3. \A r \in Operations!Pending' \ com'[t].mine, s \in com'[t].mine : r < s
        BY <2>1, <2>2, <2>3, <2>5 DEF Counts
      <3>4. QED
        BY <3>1, <3>2, <3>3 DEF Counts
    <2>8. GoesOn(t)'
      <3>1. ~Undoing(t)' /\ com'[t].undone = {}
        BY <2>1, <2>3 DEF Undoing, GoesOn
      <3>2. /\ Cardinality(Operations!Pending') - com'[t].before = Cardinality(com'[t].mine) - com'[t].created
            /\ Cardinality(Operations!Pending') >= com'[t].before
        BY <2>1, <2>3, <2>4, <2>6 DEF GoesOn
      <3>3. QED
        BY <2>1, <3>1, <3>2 DEF GoesOn
    <2>9. QED
      BY <2>1, <2>7, <2>8 DEF BatchOk
  <1>4. QED
    BY <1>2, <1>3

\* A row of the batch that could not be taken back waits again, and is not tried another time.
LEMMA PutBackKeepsBatch ==
  ASSUME WellFormed, NEW t \in Threads, BatchOk(t), Operations!PutBack(t)
  PROVE  BatchOk(t)'
  <1>1. PICK n : n = th[t].arg
    OBVIOUS
  <1>2. CASE com[t] = None \/ ~com[t].alone
    <2>1. com[t] = None => com'[t] = None
      BY PutBackIs DEF WellFormed
    <2>2. com[t] # None => com'[t].alone = com[t].alone
      BY PutBackIs DEF WellFormed
    <2>3. QED
      BY <1>2, <2>1, <2>2 DEF BatchOk
  <1>3. CASE com[t] # None /\ com[t].alone
    <2>1. th[t].pc = "failed" /\ Undoing(t)
      BY DEF Operations!PutBack, Undoing
    <2>2. com[t].unwinding /\ Counts(t) /\ Unwinds(t)
      BY <1>3, <2>1 DEF BatchOk, GoesOn
    <2>3. /\ com'[t] # None /\ th'[t].pc = "unwind" /\ com'[t].unwinding
          /\ com'[t].mine = com[t].mine /\ com'[t].undone = com[t].undone \ {n}
          /\ com'[t].left = com[t].left - 1
          /\ Operations!Pending' = Operations!Pending \cup {n}
          /\ DOMAIN rows' = DOMAIN rows /\ n \in DOMAIN rows
      BY <1>1, <1>3, <2>2, PutBackIs DEF WellFormed, FilesTypes, Marked
    <2>4. /\ IsFiniteSet(com[t].undone) /\ Cardinality(com[t].undone) \in Nat
          /\ Cardinality(com[t].mine) \in Nat /\ com[t].left \in Int
      BY <1>3, CommitNumbers
    <2>5. n \in com[t].undone
      BY <1>1, <2>1, <2>2 DEF Unwinds
    <2>6. Cardinality(com[t].undone \ {n}) = Cardinality(com[t].undone) - 1
      BY <2>4, <2>5, FS_RemoveElement
    <2>7. Counts(t)'
      BY <2>2, <2>3, <2>5 DEF Counts
    <2>8. ~Undoing(t)'
      BY <2>3 DEF Undoing
    <2>9. com[t].left + Cardinality(com[t].undone) <= Cardinality(com[t].mine) + 1
      BY <2>1, <2>2 DEF Unwinds
    <2>10. com'[t].left + Cardinality(com'[t].undone) <= Cardinality(com'[t].mine)
      BY <2>3, <2>4, <2>6, <2>9
    <2>11. Unwinds(t)'
      BY <2>3, <2>4, <2>8, <2>10 DEF Unwinds
    <2>12. QED
      BY <2>3, <2>7, <2>11 DEF BatchOk
  <1>4. QED
    BY <1>2, <1>3

\* A change of the batch that is taken back, or not.
LEMMA TakeBackKeepsBatch ==
  ASSUME WellFormed, NEW t \in Threads, BatchOk(t), Operations!TakeBack(t)
  PROVE  BatchOk(t)'
  <1>1. th[t].pc = "popped" /\ rows' = rows /\ Undoing(t) /\ (com[t] # None => com[t].todo # <<>>)
    BY DEF Operations!TakeBack, Undoing, WellFormed, ThreadInv, Placed
  <1>2. CASE Operations!Return(t, TRUE, com)
    BY <1>1, <1>2, ReturnKeepsBatch
  <1>3. CASE ~Operations!Return(t, TRUE, com)
    <2>1. com' = com /\ th'[t].pc = "failed" /\ th'[t].arg = th[t].arg
      BY <1>3, TakeBackIs DEF WellFormed
    <2>2. Undoing(t)' /\ Operations!Pending' = Operations!Pending
      BY <1>1, <2>1 DEF Undoing, Operations!Pending
    <2>3. QED
      BY <1>1, <2>1, <2>2 DEF BatchOk, Counts, GoesOn, Unwinds
  <1>4. QED
    BY <1>2, <1>3

\* Making a directory for a batch.
LEMMA MakeKeepsBatch ==
  ASSUME WellFormed, NEW t \in Threads, BatchOk(t), NEW x \in Paths, Operations!MakeDirectory(t, x),
         rows' = rows, th[t].pc \in {"idle", "step"}, com[t] # None => com[t].todo # <<>>
  PROVE  BatchOk(t)'
  <1>1. CASE Operations!Return(t, FALSE, com)
    BY <1>1, ReturnKeepsBatch
  <1>2. CASE ~Operations!Return(t, FALSE, com)
    <2>1. com' = com /\ th'[t].pc = "changed"
      BY <1>2, MakeIs DEF WellFormed
    <2>2. ~Undoing(t)' /\ ~Undoing(t) /\ Operations!Pending' = Operations!Pending
      BY <2>1 DEF Undoing, Operations!Pending
    <2>3. QED
      BY <2>1, <2>2 DEF BatchOk, Counts, GoesOn, Unwinds
  <1>3. QED
    BY <1>1, <1>2

\* Taking a row, for the user or for a batch.
LEMMA PopKeepsBatch ==
  ASSUME WellFormed, NEW t \in Threads, BatchOk(t), Operations!PopRow(t),
         loc' = loc, undoneOk' = undoneOk, torn' = torn,
         th[t].pc \in {"idle", "step", "unwind"}, com[t] # None => com[t].todo # <<>>,
         com[t] # None /\ com[t].unwinding => com[t].left > 0
  PROVE  BatchOk(t)'
  <1>1. CASE Operations!Return(t, FALSE, com) /\ rows' = rows
    BY <1>1, ReturnKeepsBatch
  <1>2. CASE ~(Operations!Return(t, FALSE, com) /\ rows' = rows)
    <2>1. Takes(t)
      BY <1>2, PopIs DEF WellFormed, Takes
    <2>2. QED
      BY <2>1, TakingKeepsBatch
  <1>3. QED
    BY <1>1, <1>2

\* Operations keep what batches count, their own and those of others.
LEMMA OperationKeepsBatches ==
  ASSUME WellFormed, BatchInv, NEW t \in Threads,
         \/ \E x \in Paths : Operations!CreateDirectory(t, x)
         \/ Operations!PushRow(t) \/ Operations!Confirm(t) \/ Operations!Undo(t)
         \/ Operations!TakeBack(t) \/ Operations!PutBack(t) \/ Operations!Unwind(t)
  PROVE  BatchInv'
  <1> USE DEF WellFormed
  <1>1. BatchOk(t)
    BY DEF BatchInv
  <1>2. BatchOk(t)'
    <2>1. ASSUME NEW x \in Paths, Operations!CreateDirectory(t, x) PROVE BatchOk(t)'
      BY <1>1, <2>1, MakeKeepsBatch DEF Operations!CreateDirectory, ThreadInv, Placed
    <2>2. CASE Operations!Confirm(t)
      BY <2>2, ConfirmIs DEF BatchOk
    <2>3. CASE Operations!Undo(t)
      BY <1>1, <2>3, PopKeepsBatch DEF Operations!Undo, ThreadInv, Placed
    <2>4. CASE Operations!Unwind(t)
      BY <1>1, <2>4, PopKeepsBatch DEF Operations!Unwind, ThreadInv, Placed
    <2>5. QED
      BY <1>1, <2>1, <2>2, <2>3, <2>4, PushKeepsBatch, TakeBackKeepsBatch, PutBackKeepsBatch
  <1>3. \A u \in Threads \ {t} : BatchOk(u)'
    <2>1. CASE Operations!PushRow(t)
      BY <2>1, PushIs, OthersKeepBatches
    <2>2. CASE Operations!PutBack(t)
      BY <2>2, PutBackIs, OthersKeepBatches
    <2>3. CASE Operations!TakeBack(t)
      <3>1. rows' = rows /\ \A u \in Threads \ {t} : th'[u] = th[u] /\ com'[u] = com[u]
        <4>1. rows' = rows
          BY <2>3 DEF Operations!TakeBack
        <4>2. CASE Operations!Return(t, TRUE, com)
          BY <4>1, <4>2, ReturnLeavesOthers
        <4>3. CASE ~Operations!Return(t, TRUE, com)
          BY <2>3, <4>1, <4>3, TakeBackIs
        <4>4. QED
          BY <4>2, <4>3
      <3>2. QED
        BY <3>1, OthersKeepBatches
    <2>4. CASE \/ \E x \in Paths : Operations!CreateDirectory(t, x)
               \/ Operations!Confirm(t) \/ Operations!Undo(t) \/ Operations!Unwind(t)
      <3>1. Quiet(t) \/ Takes(t)
        BY <2>4, QuietOrTakes
      <3>2. QED
        BY <3>1, OthersKeepBatches DEF Quiet, Takes, Taken
    <2>5. QED
      BY <2>1, <2>2, <2>3, <2>4
  <1>4. QED
    BY <1>2, <1>3 DEF BatchInv

\* A commit begins with nothing, counts what a step made, and ends.
LEMMA CommitKeepsBatches ==
  ASSUME WellFormed, BatchInv, NEW t \in Threads,
         \/ Operations!Commit(t) \/ Operations!Step(t) \/ Operations!Count(t) \/ Operations!CommitEnds(t)
  PROVE  BatchInv'
  <1> USE DEF WellFormed
  <1>1. BatchOk(t)
    BY DEF BatchInv
  <1>2. \A u \in Threads \ {t} : BatchOk(u)'
    <2>1. Quiet(t) \/ Takes(t)
      BY QuietOrTakes
    <2>2. QED
      BY <2>1, OthersKeepBatches DEF Quiet, Takes, Taken
  <1>3. ASSUME Operations!Commit(t) PROVE BatchOk(t)'
    <2> DEFINE d == [todo |-> plan, before |-> Cardinality(Operations!Pending), created |-> 0,
                     unwinding |-> FALSE, left |-> 0, mine |-> {}, undone |-> {},
                     alone |-> \A u \in Threads : th[u].pc = "idle"]
    <2>1. rows' = rows /\ com[t] = None
      BY <1>3 DEF Operations!Commit, Operations!fileVars, ThreadInv, Placed
    <2>2. \/ UNCHANGED <<th, com>>
          \/ com' = [com EXCEPT ![t] = d] /\ th' = [th EXCEPT ![t] = [pc |-> "step", arg |-> None]]
      BY <1>3, CardinalityIs DEF Operations!Commit, Operations!Goes
    <2>3. /\ d.mine = {} /\ d.undone = {} /\ d.created = 0 /\ d.before = Cardinality(Operations!Pending)
          /\ ~d.unwinding
      OBVIOUS
    <2> HIDE DEF d
    <2>4. CASE UNCHANGED <<th, com>>
      BY <1>1, <2>1, <2>4 DEF BatchOk, Counts, GoesOn, Unwinds, Undoing, Operations!Pending
    <2>5. CASE com' = [com EXCEPT ![t] = d] /\ th' = [th EXCEPT ![t] = [pc |-> "step", arg |-> None]]
      <3>1. com'[t] = d /\ th'[t].pc = "step" /\ Operations!Pending' = Operations!Pending
        BY <2>1, <2>5 DEF FilesTypes, Coms, Ths, Operations!Pending
      <3>2. Cardinality({}) = 0 /\ Cardinality(Operations!Pending) \in Nat
        BY FS_EmptySet, PendingIs DEF FilesTypes
      <3>3. /\ com'[t].mine = {} /\ com'[t].undone = {} /\ com'[t].created = 0
            /\ com'[t].before = Cardinality(Operations!Pending')
        BY <2>3, <3>1
      <3>4. Counts(t)'
        BY <3>3 DEF Counts
      <3>5. GoesOn(t)'
        BY <3>1, <3>2, <3>3 DEF GoesOn, Undoing
      <3>6. QED
        BY <2>3, <3>1, <3>4, <3>5 DEF BatchOk
    <2>6. QED
      BY <2>2, <2>4, <2>5
  <1>4. ASSUME Operations!Step(t) PROVE BatchOk(t)'
    <2>1. /\ th[t].pc = "step" /\ com[t] # None /\ ~com[t].unwinding /\ com[t].todo # <<>>
          /\ undoneOk' = undoneOk /\ torn' = torn
      BY <1>4, StepIs DEF ThreadInv, Placed
    <2>2. CASE rows' = rows /\ \E x \in Paths : Operations!MakeDirectory(t, x)
      BY <1>1, <2>1, <2>2, MakeKeepsBatch
    <2>3. CASE loc' = loc /\ Operations!PopRow(t)
      BY <1>1, <2>1, <2>3, PopKeepsBatch
    <2>4. CASE loc' = loc /\ rows' = rows /\ \E ok \in BOOLEAN : Operations!Return(t, ok, com)
      BY <1>1, <2>1, <2>4, ReturnKeepsBatch
    <2>5. QED
      BY <1>4, <2>2, <2>3, <2>4, StepIs
  <1>5. ASSUME Operations!Count(t) PROVE BatchOk(t)'
    <2>1. /\ th[t].pc = "count" /\ com[t] # None /\ ~com[t].unwinding /\ com[t] \in Operations!Commits
          /\ rows' = rows
      BY <1>5 DEF Operations!Count, Operations!fileVars, ThreadInv, Placed, FilesTypes, Coms
    <2>2. PICK now : now = Cardinality(Operations!Pending)
      OBVIOUS
    <2> DEFINE created == IF now > com[t].before THEN com[t].created + (now - com[t].before) ELSE com[t].created
               d == [com[t] EXCEPT !.created = created, !.before = now, !.todo = Tail(@)]
    <2>3. com' = [com EXCEPT ![t] = d] /\ th' = [th EXCEPT ![t] = [pc |-> "step", arg |-> None]]
      BY <1>5, <2>2, CardinalityIs DEF Operations!Count, Operations!Base, Operations!Goes, FilesTypes, Coms
    <2>4. /\ d.mine = com[t].mine /\ d.undone = com[t].undone /\ d.alone = com[t].alone
          /\ d.unwinding = com[t].unwinding /\ d.created = created /\ d.before = now
      BY <2>1 DEF Operations!Commits
    <2>5. now \in Nat /\ com[t].before \in Int /\ com[t].created \in Int /\ Cardinality(com[t].mine) \in Nat
      BY <2>1, <2>2, CommitNumbers
    <2>6. com[t].alone => created = Cardinality(com[t].mine)
      BY <1>1, <2>1, <2>2, <2>5 DEF BatchOk, GoesOn
    <2> HIDE DEF d, created
    <2>7. com'[t] = d /\ th'[t].pc = "step" /\ Operations!Pending' = Operations!Pending
      BY <2>1, <2>3 DEF FilesTypes, Coms, Ths, Operations!Pending
    <2>8. ~Undoing(t)'
      BY <2>7 DEF Undoing
    <2>9. ASSUME com[t].alone PROVE Counts(t)' /\ GoesOn(t)'
      <3>1. Counts(t) /\ GoesOn(t)
        BY <1>1, <2>1, <2>9 DEF BatchOk
      <3>2. Counts(t)'
        BY <2>1, <2>4, <2>7, <3>1 DEF Counts
      <3>3. com'[t].undone = {} /\ com'[t].created = Cardinality(com[t].mine) /\ com'[t].mine = com[t].mine
            /\ com'[t].before = now
        BY <2>4, <2>6, <2>7, <2>9, <3>1 DEF GoesOn
      <3>4. GoesOn(t)'
        BY <2>2, <2>5, <2>7, <2>8, <3>3 DEF GoesOn
      <3>5. QED
        BY <3>2, <3>4
    <2>10. QED
      BY <2>1, <2>4, <2>7, <2>9 DEF BatchOk
  <1>6. ASSUME Operations!CommitEnds(t) PROVE BatchOk(t)'
    <2>1. com'[t] = None
      BY <1>6 DEF Operations!CommitEnds, FilesTypes, Coms
    <2>2. QED
      BY <2>1 DEF BatchOk
  <1>7. QED
    BY <1>2, <1>3, <1>4, <1>5, <1>6 DEF BatchInv

\* Requests, plans and the policy change no batch; the end of the process ends them all.
LEMMA OutsideKeepsBatches ==
  ASSUME WellFormed, BatchInv,
         \/ \E op \in {"move", "copy", "delete", "wipe"}, src, dst \in Paths : Operations!Request(op, src, dst)
         \/ \E kind \in Operations!Kinds : Operations!Add(kind)
         \/ Operations!Forget \/ Operations!Plan \/ Operations!SetReadOnly \/ Operations!Restart
  PROVE  BatchInv'
  <1>1. CASE UNCHANGED <<rows, th, com>>
    BY <1>1 DEF BatchInv, BatchOk, Counts, GoesOn, Unwinds, Undoing, Operations!Pending
  <1>2. CASE Operations!Restart
    <2>1. \A u \in Threads : com'[u] = None
      BY <1>2 DEF Operations!Restart
    <2>2. QED
      BY <2>1 DEF BatchInv, BatchOk
  <1>3. QED
    BY <1>1, <1>2 DEF Operations!Request, Operations!Add, Operations!Forget, Operations!Plan,
                      Operations!SetReadOnly, Operations!fileVars, Operations!batchVars

-----------------------------------------------------------------------------
(* File operations: all of it.                                             *)

FilesInv == WellFormed /\ StoreInv /\ StepInv /\ BatchInv

\* The invariant of files and batches holds at the beginning.
LEMMA FilesStart == RequestsInit => FilesInv
  <1> SUFFICES ASSUME RequestsInit PROVE FilesInv
    OBVIOUS
  <1>1. /\ scene \in {"files", "batch"} /\ loc = Home[scene] /\ readOnly = FALSE /\ rows = <<>> /\ request = None
        /\ th = [t \in Threads |-> [pc |-> "idle", arg |-> None]]
        /\ com = [t \in Threads |-> None] /\ plan = <<>> /\ added = 0 /\ ran = <<>> /\ dropped = {}
        /\ undoneOk = [r \in 1 .. MaxRows |-> 0] /\ outside = 0
    BY DEF RequestsInit, Operations!Init, Operations!Idle
  <1>2. /\ \A t \in Threads : th[t].pc = "idle" /\ com[t] = None /\ ~Undoing(t)
        /\ \A t \in Threads : Owned(t) = {} /\ Left(t) = {}
    BY <1>1 DEF Undoing, Owned, Left
  <1>3. FilesTypes
    <2>1. th \in Ths /\ com \in Coms
      BY <1>1 DEF Ths, Coms, Args, Operations!Points
    <2>2. <<>> \in Seq(Operations!Rows) /\ <<>> \in Seq(Operations!Steps) /\ Len(<<>>) = 0
      OBVIOUS
    <2>3. rows \in Seq(Operations!Rows) /\ Len(rows) <= MaxRows /\ plan \in Seq(Operations!Steps)
      BY <1>1, <2>2, FilesAssumption
    <2>4. readOnly \in BOOLEAN /\ added \in 0 .. MaxSteps /\ outside \in 0 .. MaxOutside
      <3>1. 0 \in 0 .. MaxSteps /\ 0 \in 0 .. MaxOutside
        BY FilesAssumption
      <3>2. readOnly = FALSE /\ added = 0 /\ outside = 0
        BY <1>1
      <3>3. QED
        BY <3>1, <3>2
    <2>5. QED
      BY <1>1, <2>1, <2>3, <2>4 DEF FilesTypes
  <1>4. Located /\ \A i \in Operations!Items : loc[i] # Trash
    <2>1. /\ Home[scene] \in [Operations!Items -> Operations!Places \ {Trash}]
          /\ \A i, j \in Operations!Items : Home[scene][i] = Home[scene][j] => i = j \/ Home[scene][i] \notin Paths
      BY <1>1, FilesAssumption
    <2>2. loc = Home[scene]
      BY <1>1
    <2>3. QED
      BY <2>1, <2>2 DEF Located
  <1>5. ThreadInv
    BY <1>2 DEF ThreadInv, Placed, Undoing
  <1>6. StoreInv
    <2>1. UndoInv
      BY <1>1, <1>2 DEF UndoInv
    <2>2. QED
      BY <1>4, <2>1 DEF StoreInv, TrashInv
  <1>7. StepInv
    <2>1. ran \in Seq(Nat) /\ DOMAIN ran = {} /\ DOMAIN plan = {}
      BY <1>1
    <2>2. QED
      BY <1>1, <1>2, <2>1 DEF StepInv, Done, Ids, Distinct
  <1>8. BatchInv
    BY <1>2 DEF BatchInv, BatchOk
  <1>9. QED
    BY <1>3, <1>4, <1>5, <1>6, <1>7, <1>8 DEF FilesInv, WellFormed

\* Every step keeps the invariant of files and batches.
LEMMA FilesStep == FilesInv /\ Operations!Next => FilesInv'
  <1> SUFFICES ASSUME FilesInv, Operations!Next PROVE FilesInv'
    OBVIOUS
  <1>0. WellFormed /\ StoreInv /\ StepInv /\ BatchInv
    BY DEF FilesInv
  <1>1. ASSUME NEW t \in Threads,
               \/ \E x \in Paths : Operations!CreateDirectory(t, x)
               \/ Operations!Confirm(t) \/ Operations!Undo(t)
        PROVE  FilesInv'
    BY <1>0, <1>1, OperationKeepsTypes, QuietOrTakes, QuietKeepsStore, TakingKeepsStore,
       OperationKeepsSteps, OperationKeepsBatches DEF FilesInv
  <1>2. ASSUME NEW t \in Threads, Operations!PushRow(t) \/ Operations!TakeBack(t) \/ Operations!PutBack(t)
        PROVE  FilesInv'
    BY <1>0, <1>2, OperationKeepsTypes, PushKeepsStore, TakeBackKeepsStore, PutBackKeepsStore,
       OperationKeepsSteps, OperationKeepsBatches DEF FilesInv
  <1>3. ASSUME NEW t \in Threads, Operations!Commit(t) \/ Operations!Count(t) \/ Operations!CommitEnds(t)
        PROVE  FilesInv'
    BY <1>0, <1>3, CommitKeepsTypes, QuietOrTakes, QuietKeepsStore, TakingKeepsStore,
       CommitKeepsSteps, CommitKeepsBatches DEF FilesInv
  <1>4. ASSUME NEW t \in Threads, Operations!Step(t) PROVE FilesInv'
    BY <1>0, <1>4, CommitKeepsTypes, QuietOrTakes, QuietKeepsStore, TakingKeepsStore,
       StepKeepsSteps, CommitKeepsBatches DEF FilesInv
  <1>5. ASSUME NEW t \in Threads, Operations!Unwind(t) PROVE FilesInv'
    BY <1>0, <1>5, CommitKeepsTypes, QuietOrTakes, QuietKeepsStore, TakingKeepsStore,
       OperationKeepsSteps, OperationKeepsBatches DEF FilesInv
  <1>6. ASSUME \/ \E op \in {"move", "copy", "delete", "wipe"}, src, dst \in Paths : Operations!Request(op, src, dst)
               \/ \E kind \in Operations!Kinds : Operations!Add(kind)
               \/ Operations!Forget \/ Operations!Plan \/ Operations!SetReadOnly \/ Operations!Restart
        PROVE  FilesInv'
    BY <1>0, <1>6, OutsideKeepsTypes, OutsideKeepsStore, OutsideKeepsSteps, OutsideKeepsBatches DEF FilesInv
  <1>7. QED
    BY <1>1, <1>2, <1>3, <1>4, <1>5, <1>6 DEF Operations!Next

\* So does a step of another part.
LEMMA FilesStutter == FilesInv /\ UNCHANGED filesVars => FilesInv'
  <1> SUFFICES ASSUME FilesInv, UNCHANGED filesVars PROVE FilesInv'
    OBVIOUS
  <1>1. UNCHANGED <<scene, loc, readOnly, rows, request, th, com, plan, added, ran, dropped, undoneOk, outside, torn>>
    BY DEF filesVars
  <1>2. WellFormed'
    BY <1>1 DEF FilesInv, WellFormed, FilesTypes, Located, ThreadInv, Placed, Undoing
  <1>3. Operations!Pending' = Operations!Pending /\ \A t \in Threads : Undoing(t)' <=> Undoing(t)
    BY <1>1 DEF Operations!Pending, Undoing
  <1>4. StoreInv'
    BY <1>1, <1>3 DEF FilesInv, StoreInv, UndoInv, TrashInv, Known
  <1>5. StepInv'
    <2>1. \A t \in Threads : KeepsSteps(t)
      BY <1>1 DEF KeepsSteps
    <2>2. QED
      BY <1>1, <2>1, KeepingKeepsSteps DEF FilesInv
  <1>6. BatchInv'
    BY <1>1, <1>3 DEF FilesInv, BatchInv, BatchOk, Counts, GoesOn, Unwinds
  <1>7. QED
    BY <1>2, <1>4, <1>5, <1>6 DEF FilesInv

\* What the invariant says is what the files and the batches are to keep.
LEMMA FilesPromise == FilesInv => FilesAreSafe
  <1> SUFFICES ASSUME FilesInv PROVE FilesAreSafe
    OBVIOUS
  <1> USE DEF FilesInv, WellFormed
  <1>1. Operations!TypeOK
    <2>1. ASSUME NEW x \in Paths PROVE Operations!Cardinality({i \in Operations!Items : loc[i] = x}) <= 1
      <3>1. CASE {i \in Operations!Items : loc[i] = x} = {}
        BY <3>1, FS_EmptySet, CardinalityIs
      <3>2. CASE {i \in Operations!Items : loc[i] = x} # {}
        <4>1. PICK j \in Operations!Items : loc[j] = x
          BY <3>2
        <4>2. {i \in Operations!Items : loc[i] = x} = {j}
          BY <4>1 DEF Located
        <4>3. Cardinality({j}) = 1
          BY FS_Singleton
        <4>4. QED
          BY <4>2, <4>3, CardinalityIs
      <3>3. QED
        BY <3>1, <3>2
    <2>2. \A t \in Threads : th[t].pc \in Operations!Points
      BY DEF FilesTypes, Ths
    <2>3. dropped \subseteq 1 .. MaxSteps
      BY FilesAssumption DEF FilesTypes, StepInv
    <2>4. QED
      BY <2>1, <2>2, <2>3 DEF Operations!TypeOK, FilesTypes, Located
  <1>2. Operations!UndoneOnce
    <2>1. \A r \in Operations!Pending : r \in 1 .. MaxRows /\ r \in DOMAIN rows /\ ~rows[r].undone
      BY FilesAssumption DEF Operations!Pending, FilesTypes
    <2>2. QED
      BY <2>1 DEF Operations!UndoneOnce, StoreInv, UndoInv
  <1>3. Operations!TrashIsReachable
    <2>1. CASE torn
      BY <2>1 DEF Operations!TrashIsReachable
    <2>2. CASE ~torn
      BY <2>2 DEF Operations!TrashIsReachable, StoreInv, TrashInv, Known, Undoing
    <2>3. QED
      BY <2>1, <2>2
  <1>4. Operations!StepsRunOnce
    <2>1. Operations!ToSet(ran) = Done
      BY DEF Operations!ToSet, Done
    <2>2. QED
      BY <2>1 DEF Operations!StepsRunOnce, StepInv
  <1>5. Operations!BatchUndoesItsOwn
    <2>1. ASSUME NEW t \in Threads, com[t] # None, com[t].alone
          PROVE  /\ com[t].undone \subseteq com[t].mine
                 /\ th[t].pc = "unwind" => com[t].left <= Cardinality(com[t].mine)
                 /\ th[t].pc = "step" => com[t].created = Cardinality(com[t].mine)
      <3>1. Counts(t) /\ IF com[t].unwinding THEN Unwinds(t) ELSE GoesOn(t)
        BY <2>1 DEF BatchInv, BatchOk
      <3>2. /\ Cardinality(com[t].mine) \in Nat /\ Cardinality(com[t].undone) \in Nat
            /\ Cardinality(Operations!Pending) \in Nat
            /\ com[t].before \in Int /\ com[t].created \in Int /\ com[t].left \in Int
        BY <2>1, CommitNumbers
      <3>3. CASE th[t].pc = "unwind"
        <4>1. com[t].unwinding /\ ~Undoing(t)
          BY <2>1, <3>3 DEF ThreadInv, Placed, Undoing
        <4>2. com[t].left + Cardinality(com[t].undone) <= Cardinality(com[t].mine)
          BY <3>1, <3>2, <4>1 DEF Unwinds
        <4>3. QED
          BY <3>1, <3>2, <3>3, <4>2 DEF Counts
      <3>4. CASE th[t].pc = "step"
        <4>1. ~com[t].unwinding
          BY <2>1, <3>4 DEF ThreadInv, Placed
        <4>2. QED
          BY <3>1, <3>2, <3>4, <4>1 DEF Counts, GoesOn
      <3>5. QED
        BY <3>1, <3>3, <3>4 DEF Counts
    <2>2. QED
      BY <2>1, CardinalityIs DEF Operations!BatchUndoesItsOwn
  <1>6. QED
    BY <1>1, <1>2, <1>3, <1>4, <1>5 DEF FilesAreSafe

\* Undo, soft deletion and batches, for any number of threads, files, rows and steps: a row is taken
\* back once, what was deleted can be brought back, a planned step runs once, and a batch that has
\* the store for itself takes back what it did (file_ops.py, persistence.py, batch_ops.py).
THEOREM FilesSafe == RequestsSpec => []FilesAreSafe
  <1>1. FilesInv /\ [RequestsNext]_requestsVars => FilesInv'
    <2> SUFFICES ASSUME FilesInv, [RequestsNext]_requestsVars PROVE FilesInv'
      OBVIOUS
    <2>1. CASE Operations!Next
      BY <2>1, FilesStep
    <2>2. CASE UNCHANGED filesVars
      BY <2>2, FilesStutter
    <2>3. QED
      BY <2>1, <2>2 DEF RequestsNext, requestsVars
  <1>2. QED
    BY FilesStart, FilesPromise, <1>1, PTL DEF RequestsSpec

-----------------------------------------------------------------------------
(* File operations.                                                        *)

\* Whoever confirms, undoes or commits what and when: while the policy is read-only nothing on
\* the disk changes (execute_confirmed_file_operation, undo_last_action, _run_batch_step).
THEOREM ReadOnlyIsKept == RequestsSpec => ReadOnlyHolds
  <1> USE DEF Operations!fileVars, Operations!batchVars, Operations!vars
  <1>1. ASSUME Operations!Next, readOnly PROVE UNCHANGED loc
    <2>1. ASSUME NEW t \in Threads, NEW x \in Paths, Operations!CreateDirectory(t, x) PROVE UNCHANGED loc
      BY <1>1, <2>1 DEF Operations!CreateDirectory, Operations!MakeDirectory
    <2>2. ASSUME NEW t \in Threads, Operations!Confirm(t) PROVE UNCHANGED loc
      BY <1>1, <2>2 DEF Operations!Confirm
    <2>3. ASSUME NEW t \in Threads, Operations!TakeBack(t) PROVE UNCHANGED loc
      BY <1>1, <2>3 DEF Operations!TakeBack, Operations!Allowed
    <2>4. ASSUME NEW t \in Threads, Operations!Step(t) PROVE UNCHANGED loc
      BY <1>1, <2>4 DEF Operations!Step, Operations!MakeDirectory
    <2>5. QED
      BY <1>1, <2>1, <2>2, <2>3, <2>4
         DEF Operations!Next, Operations!PushRow, Operations!Undo, Operations!PutBack,
             Operations!Commit, Operations!Count, Operations!Unwind, Operations!CommitEnds,
             Operations!Request, Operations!Add, Operations!Forget, Operations!Plan,
             Operations!SetReadOnly, Operations!Restart
  <1>2. [RequestsNext]_requestsVars => [readOnly => UNCHANGED loc]_(Operations!vars)
    BY <1>1 DEF RequestsNext, requestsVars, filesVars
  <1>3. QED
    BY <1>2, PTL DEF RequestsSpec, ReadOnlyHolds, Operations!ReadOnlyHolds

=============================================================================
