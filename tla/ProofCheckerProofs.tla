-------------------------- MODULE ProofCheckerProofs --------------------------
(***************************************************************************)
(* Proofs about ProofChecker: the depth of a check, and that nothing is    *)
(* accepted that something is wrong with, or rejected without a reason.    *)
(***************************************************************************)
EXTENDS ProofChecker, TLAPS

StageAt(f) == Stages(f.entry)[f.at]
AtLast(f) == f.at = Len(Stages(f.entry))

\* What a check under way has established about the publication it is about.
FrameInv(f) ==
    /\ f.at \in 1 .. Len(Stages(f.entry))
    /\ f.entry = "metadata" => "INVALID_TX_ID" \notin defects[f.tx]
    /\ \A i \in 1 .. f.at - 1 : Clean(f.tx, Stages(f.entry)[i])

\* The stage of the pointer is behind f.
PastPointer(f) == \E i \in 1 .. f.at - 1 : Stages(f.entry)[i] = "pointer"

\* The publication's own check: it is the bottom of the stack, and once past the
\* pointer's stage it has had the pointer checked.
BottomInv(k) ==
    k.stack # <<>> =>
        /\ k.tx \in Publications /\ k.stack[1].tx = k.tx
        /\ PastPointer(k.stack[1]) /\ k.verifyPointer /\ ~IsPost(k.tx) => Sound(Pointer[k.tx])

\* The pointer's check, which the publication's waits for at the pointer's stage.
PointerInv(k) ==
    Len(k.stack) = 2 =>
        /\ k.verifyPointer /\ ~IsPost(k.tx)
        /\ k.stack[2].tx = Pointer[k.tx] /\ k.stack[2].key = "ar"
        /\ StageAt(k.stack[1]) = "pointer" /\ Clean(k.tx, "pointer")

EndedInv(k) ==
    k.stack = <<>> /\ k.tx # NoPointer /\ k.returned = "ok" =>
        /\ Sound(k.tx)
        /\ k.verifyPointer => SoundWithPointer(k.tx)

CheckInv(k) ==
    /\ k \in Check
    /\ Len(k.stack) \in 0 .. 2
    /\ \A i \in 1 .. Len(k.stack) : FrameInv(k.stack[i])
    /\ BottomInv(k)
    /\ PointerInv(k)
    /\ EndedInv(k)
    /\ k.saves => k.verifyPointer

RecordInv == \A t \in Publications : record[t] = "ok" => SoundWithPointer(t)

\* No publication is said to deserve an error that cannot blame it.
DefectInv == \A t \in Publications : defects[t] \subseteq Blame(t)

IInv ==
    /\ TypeOK /\ DefectInv
    /\ \A c \in Checkers : CheckInv(checks[c])
    /\ RecordInv

-------------------------------------------------------------------------------
(* The stages *)

\* The stages of both entries are the lookups and then those of the proof.
LEMMA StageLists ==
    /\ Len(Stages("id")) = 13 /\ Len(Stages("metadata")) = 11
    /\ Stages("id")[1] = "cache" /\ Stages("id")[2] = "publication"
    /\ Stages("id")[3] = "timestampProofs" /\ Stages("id")[4] = "owner"
    /\ Stages("metadata")[1] = "cache" /\ Stages("metadata")[2] = "owner"
    /\ \A i \in 5 .. 13 : Stages("id")[i] = Proof[i - 4]
    /\ \A i \in 3 .. 11 : Stages("metadata")[i] = Proof[i - 2]
  <1>1. Len(Stages("id")) = 13 /\ Len(Stages("metadata")) = 11
    BY DEF Stages, Proof
  <1>2. /\ Stages("id")[1] = "cache" /\ Stages("id")[2] = "publication"
        /\ Stages("id")[3] = "timestampProofs" /\ Stages("id")[4] = "owner"
    BY DEF Stages, Proof
  <1>3. Stages("metadata")[1] = "cache" /\ Stages("metadata")[2] = "owner"
    BY DEF Stages, Proof
  <1>4. \A i \in 5 .. 13 : Stages("id")[i] = Proof[i - 4]
    BY DEF Stages, Proof
  <1>5. \A i \in 3 .. 11 : Stages("metadata")[i] = Proof[i - 2]
    BY DEF Stages, Proof
  <1> QED
    BY <1>1, <1>2, <1>3, <1>4, <1>5

\* Where the stages that the proofs speak of are.
LEMMA StagePlaces ==
    /\ Len(Stages("id")) = 13 /\ Len(Stages("metadata")) = 11
    /\ \A i \in 1 .. 13 : Stages("id")[i] = "pointer" => i = 10
    /\ \A i \in 1 .. 11 : Stages("metadata")[i] = "pointer" => i = 8
    /\ Stages("id")[10] = "pointer" /\ Stages("metadata")[8] = "pointer"
    /\ Stages("id")[13] = "event" /\ Stages("metadata")[11] = "event"
    /\ \A entry \in Entry : Stages(entry)[1] = "cache"
  BY StageLists DEF Entry, Proof

\* The stages of a check with metadata are, the lookups of the publication and of
\* its timestamp proof aside, those of a check by id.
LEMMA StagesOfMetadata ==
    \A i \in 1 .. 13 :
        \/ Stages("id")[i] \in {"publication", "timestampProofs"}
        \/ \E j \in 1 .. 11 : Stages("metadata")[j] = Stages("id")[i]
  <1>1. \A i \in 1 .. 13 : i \in {1, 2, 3} \/ i - 2 \in 1 .. 11
    OBVIOUS
  <1>2. Stages("metadata")[1] = Stages("id")[1]
    BY StageLists DEF Proof
  <1>3. Stages("id")[2] = "publication" /\ Stages("id")[3] = "timestampProofs"
    BY StageLists DEF Proof
  <1>4. \A i \in 4 .. 13 : Stages("metadata")[i - 2] = Stages("id")[i]
    BY StageLists DEF Proof
  <1> QED
    BY <1>1, <1>2, <1>3, <1>4

\* The lookup in the database finds no error.
LEMMA CacheIsClean == ASSUME NEW t PROVE Clean(t, "cache")
  BY DEF Clean, ErrorSet, Errors

\* A check that passes its last stage has passed all of them.
LEMMA Completed ==
    ASSUME NEW f \in Frame, FrameInv(f), AtLast(f), Clean(f.tx, StageAt(f)),
           defects[f.tx] \subseteq Blame(f.tx)
    PROVE  Sound(f.tx)
  <1>1. \A i \in 1 .. Len(Stages(f.entry)) : Clean(f.tx, Stages(f.entry)[i])
    <2>1. Len(Stages(f.entry)) \in Nat
      BY StageLists DEF Frame, Entry
    <2> QED
      BY <2>1 DEF FrameInv, AtLast, StageAt
  <1>2. \A i \in 1 .. 13 : Clean(f.tx, Stages("id")[i])
    <2>1. CASE f.entry = "id"
      BY <2>1, <1>1, StageLists
    <2>2. CASE f.entry = "metadata"
      <3>1. Clean(f.tx, "publication") /\ Clean(f.tx, "timestampProofs")
        <4>1. "INVALID_TX_ID" \notin defects[f.tx]
          BY <2>2 DEF FrameInv
        <4>2. /\ Errors(f.tx, "publication") = <<"INVALID_TX_ID">>
              /\ Errors(f.tx, "timestampProofs") = <<"INVALID_TX_ID">>
          BY DEF Errors
        <4>3. /\ ErrorSet(f.tx, "publication") \subseteq {"INVALID_TX_ID"}
              /\ ErrorSet(f.tx, "timestampProofs") \subseteq {"INVALID_TX_ID"}
          BY <4>2 DEF ErrorSet
        <4> QED
          BY <4>1, <4>3 DEF Clean
      <3>2. \A j \in 1 .. 11 : Clean(f.tx, Stages("metadata")[j])
        BY <2>2, <1>1, StageLists
      <3> QED
        BY <3>1, <3>2, StagesOfMetadata
    <2> QED
      BY <2>1, <2>2 DEF Frame, Entry
  <1>3. Blame(f.tx) \cap defects[f.tx] = {}
    BY <1>2, StageLists DEF Blame, Clean
  <1> QED
    BY <1>3 DEF Sound

-------------------------------------------------------------------------------
(* One check *)

\* What a result has to be worth for the check k to return it.
Worth(k, r) ==
    r = "ok" =>
        LET top == k.stack[Len(k.stack)]
        IN /\ Sound(top.tx)
           /\ Len(k.stack) = 1 /\ k.verifyPointer => SoundWithPointer(top.tx)

\* A check by a frame that is advanced.
LEMMA AdvancedFrame ==
    ASSUME NEW f \in Frame, FrameInv(f), ~AtLast(f), Clean(f.tx, StageAt(f)),
           NEW g, g = [f EXCEPT !.at = @ + 1]
    PROVE  /\ g \in Frame /\ FrameInv(g)
           /\ PastPointer(g) => PastPointer(f) \/ StageAt(f) = "pointer"
  <1>1. /\ g \in Frame /\ g.tx = f.tx /\ g.entry = f.entry /\ g.at = f.at + 1
        /\ g.key = f.key
    BY DEF Frame
  <1>2. Len(Stages(f.entry)) \in Nat /\ f.at \in Nat
    BY StageLists DEF Frame, Entry
  <1>3. FrameInv(g)
    BY <1>1, <1>2 DEF FrameInv, AtLast, StageAt
  <1>4. PastPointer(g) => PastPointer(f) \/ StageAt(f) = "pointer"
    BY <1>1, <1>2 DEF PastPointer, StageAt
  <1> QED
    BY <1>1, <1>3, <1>4

\* The stage of the pointer is not the last.
LEMMA PointerNotLast ==
    ASSUME NEW f \in Frame, StageAt(f) = "pointer", f.at \in 1 .. Len(Stages(f.entry))
    PROVE  ~AtLast(f)
  <1>1. CASE f.entry = "id"
    <2>1. f.at \in 1 .. 13 /\ Stages("id")[f.at] = "pointer"
      BY <1>1, StagePlaces DEF StageAt
    <2>2. f.at = 10
      BY <2>1, StagePlaces
    <2> QED
      BY <1>1, <2>2, StagePlaces DEF AtLast
  <1>2. CASE f.entry = "metadata"
    <2>1. f.at \in 1 .. 11 /\ Stages("metadata")[f.at] = "pointer"
      BY <1>2, StagePlaces DEF StageAt
    <2>2. f.at = 8
      BY <2>1, StagePlaces
    <2> QED
      BY <1>2, <2>2, StagePlaces DEF AtLast
  <1> QED
    BY <1>1, <1>2 DEF Frame, Entry

\* The last stage compares the event with the typed data.
LEMMA LastStage ==
    ASSUME NEW f \in Frame, AtLast(f)
    PROVE  StageAt(f) = "event" /\ PastPointer(f)
  <1>1. CASE f.entry = "id"
    <2>1. f.at = 13 /\ 10 \in 1 .. f.at - 1
      BY <1>1, StagePlaces DEF AtLast
    <2> QED
      BY <1>1, <2>1, StagePlaces DEF StageAt, PastPointer
  <1>2. CASE f.entry = "metadata"
    <2>1. f.at = 11 /\ 8 \in 1 .. f.at - 1
      BY <1>2, StagePlaces DEF AtLast
    <2> QED
      BY <1>2, <2>1, StagePlaces DEF StageAt, PastPointer
  <1> QED
    BY <1>1, <1>2 DEF Frame, Entry

\* Advance moves the frame on top of the stack.
LEMMA AdvancedStack ==
    ASSUME NEW s \in Seq(Frame), s # <<>>
    PROVE  /\ Advance(s) \in Seq(Frame) /\ Len(Advance(s)) = Len(s)
           /\ \A i \in 1 .. Len(s) - 1 : Advance(s)[i] = s[i]
           /\ Advance(s)[Len(s)] = [s[Len(s)] EXCEPT !.at = @ + 1]
  <1>1. Len(s) \in 1 .. Len(s)
    OBVIOUS
  <1>2. [s[Len(s)] EXCEPT !.at = @ + 1] \in Frame
    <2>1. s[Len(s)] \in Frame
      BY <1>1
    <2> QED
      BY <2>1 DEF Frame
  <1> QED
    BY <1>1, <1>2 DEF Advance

\* A check whose top frame moves on keeps its invariant.
LEMMA PassesInv ==
    ASSUME NEW k, CheckInv(k), k.stack # <<>>,
           NEW f, f = k.stack[Len(k.stack)],
           ~AtLast(f), Clean(f.tx, StageAt(f)),
           StageAt(f) = "pointer" =>
               IsPost(f.tx) \/ ~k.verifyPointer \/ Len(k.stack) = 2
    PROVE  CheckInv(Passes(k))
  <1> DEFINE h == Passes(k)
             n == Len(k.stack)
             g == [f EXCEPT !.at = @ + 1]
  <1>1. n \in {1, 2} /\ k.stack \in Seq(Frame) /\ f \in Frame /\ FrameInv(f)
    BY DEF CheckInv, Check
  <1>2. /\ g \in Frame /\ FrameInv(g)
        /\ PastPointer(g) => PastPointer(f) \/ StageAt(f) = "pointer"
    BY <1>1, AdvancedFrame
  <1>3. /\ h.stack \in Seq(Frame) /\ Len(h.stack) = n
        /\ \A i \in 1 .. n - 1 : h.stack[i] = k.stack[i]
        /\ h.stack[n] = g
    <2>1. h.stack = Advance(k.stack)
      BY DEF Passes, CheckInv, Check
    <2> QED
      BY <1>1, <2>1, AdvancedStack
  <1>4. /\ h \in Check /\ h.tx = k.tx /\ h.verifyPointer = k.verifyPointer
        /\ h.saves = k.saves /\ h.returned = k.returned /\ h.stack # <<>>
    <2>1. h \in Check
      BY <1>3 DEF Passes, CheckInv, Check
    <2>2. h.stack # <<>>
      BY <1>1, <1>3
    <2> QED
      BY <2>1, <2>2 DEF Passes, CheckInv, Check
  <1>5. \A i \in 1 .. Len(h.stack) : FrameInv(h.stack[i])
    BY <1>1, <1>2, <1>3 DEF CheckInv
  <1>6. g.tx = f.tx /\ g.key = f.key
    BY <1>1 DEF Frame
  <1>7. BottomInv(h)
    <2>1. CASE n = 1
      BY <2>1, <1>1, <1>2, <1>3, <1>4, <1>6 DEF CheckInv, BottomInv
    <2>2. CASE n = 2
      BY <2>2, <1>1, <1>3, <1>4 DEF CheckInv, BottomInv
    <2> QED
      BY <1>1, <2>1, <2>2
  <1>8. PointerInv(h)
    <2>1. SUFFICES ASSUME n = 2 PROVE PointerInv(h)
      BY <1>3 DEF PointerInv
    <2>2. h.stack[1] = k.stack[1] /\ h.stack[2] = g /\ k.stack[2] = f
      BY <2>1, <1>3
    <2> QED
      BY <2>1, <2>2, <1>3, <1>4, <1>6 DEF CheckInv, PointerInv
  <1>9. EndedInv(h)
    BY <1>4 DEF EndedInv
  <1> QED
    BY <1>1, <1>3, <1>4, <1>5, <1>7, <1>8, <1>9 DEF CheckInv

\* The history of a check does not matter.
LEMMA HistoryInv ==
    ASSUME NEW k, CheckInv(k), NEW h \in Check,
           h.tx = k.tx, h.stack = k.stack, h.verifyPointer = k.verifyPointer,
           h.returned = k.returned, h.saves = k.saves
    PROVE  CheckInv(h)
  BY DEF CheckInv, BottomInv, PointerInv, EndedInv

\* A check that ends keeps its invariant.
LEMMA EndsInv ==
    ASSUME NEW k, CheckInv(k), NEW r \in Result, NEW h,
           h = [k EXCEPT !.stack = <<>>, !.returned = r],
           r = "ok" => Sound(k.tx) /\ (k.verifyPointer => SoundWithPointer(k.tx))
    PROVE  CheckInv(h)
  <1>1. k \in Check /\ k.pointerRecord \in Result /\ <<>> \in Seq(Frame)
    BY DEF CheckInv, Check
  <1>2. PICK s \in Seq(Frame) : s = <<>>
    BY <1>1
  <1>3. /\ h \in Check /\ h.stack = <<>> /\ h.returned = r /\ h.tx = k.tx
        /\ h.saves = k.saves /\ h.verifyPointer = k.verifyPointer
    <2>1. h = [k EXCEPT !.stack = s, !.returned = r]
      BY <1>2
    <2>2. /\ h \in Check /\ h.stack = s /\ h.returned = r /\ h.tx = k.tx
          /\ h.saves = k.saves /\ h.verifyPointer = k.verifyPointer
      BY <1>1, <2>1 DEF Check
    <2> QED
      BY <1>2, <2>2
  <1>4. Len(h.stack) = 0
    BY <1>3
  <1> QED
    BY <1>3, <1>4 DEF CheckInv, BottomInv, PointerInv, EndedInv

\* A check whose pointer is proved goes on after the pointer's stage.
LEMMA PointerProvedInv ==
    ASSUME NEW k, CheckInv(k), Len(k.stack) = 2, Sound(k.stack[2].tx), NEW h,
           h = [k EXCEPT !.stack = Advance(Pop(@))]
    PROVE  CheckInv(h)
  <1>1. k \in Check /\ k.stack \in Seq(Frame) /\ k.stack # <<>>
    BY DEF CheckInv, Check
  <1>2. PICK f \in Frame : f = k.stack[1]
    BY <1>1
  <1>3. PICK g : g = [f EXCEPT !.at = @ + 1]
    OBVIOUS
  <1>4. /\ FrameInv(f) /\ f.tx = k.tx /\ k.tx \in Publications
        /\ StageAt(f) = "pointer" /\ Clean(f.tx, "pointer")
    BY <1>1, <1>2 DEF CheckInv, BottomInv, PointerInv
  <1>5. ~AtLast(f)
    BY <1>4, PointerNotLast DEF FrameInv
  <1>6. g \in Frame /\ FrameInv(g)
    BY <1>3, <1>4, <1>5, AdvancedFrame
  <1>7. g.tx = k.tx
    BY <1>3, <1>4 DEF Frame
  <1>8. Pop(k.stack) = <<f>>
    <2>1. Pop(k.stack) \in Seq(Frame) /\ Len(Pop(k.stack)) = 1 /\ Pop(k.stack)[1] = f
      BY <1>1, <1>2 DEF Pop
    <2> QED
      BY <2>1
  <1>9. Advance(<<f>>) = <<g>>
    BY <1>3 DEF Advance
  <1>10. PICK s \in Seq(Frame) : s = <<g>>
    <2>1. <<g>> \in Seq(Frame)
      BY <1>6
    <2> QED
      BY <2>1, Zenon
  <1>11. /\ h \in Check /\ h.stack = <<g>> /\ h.tx = k.tx
         /\ h.saves = k.saves /\ h.verifyPointer = k.verifyPointer
    <2>1. h = [k EXCEPT !.stack = s]
      BY <1>1, <1>8, <1>9, <1>10
    <2>2. /\ h \in Check /\ h.stack = s /\ h.tx = k.tx
          /\ h.saves = k.saves /\ h.verifyPointer = k.verifyPointer
      BY <1>1, <2>1 DEF Check
    <2> QED
      BY <1>10, <2>2
  <1>12. Len(h.stack) = 1 /\ h.stack[1] = g /\ h.stack # <<>>
    BY <1>11
  <1>13. Sound(Pointer[k.tx])
    BY DEF CheckInv, PointerInv
  <1> QED
    BY <1>4, <1>6, <1>7, <1>11, <1>12, <1>13 DEF CheckInv, BottomInv, PointerInv, EndedInv

\* A check whose top frame returns keeps its invariant.
LEMMA ReturnsInv ==
    ASSUME NEW k, CheckInv(k), k.stack # <<>>,
           NEW r \in Result, NEW thrown \in BOOLEAN, Worth(k, r)
    PROVE  CheckInv(Returns(k, r, thrown))
  <1>1. Len(k.stack) \in {1, 2}
    BY DEF CheckInv, Check
  <1>2. CASE Len(k.stack) = 1
    <2>1. Returns(k, r, thrown) = [k EXCEPT !.stack = <<>>, !.returned = r]
      BY <1>2 DEF Returns
    <2>2. r = "ok" => Sound(k.tx) /\ (k.verifyPointer => SoundWithPointer(k.tx))
      BY <1>2 DEF Worth, CheckInv, BottomInv
    <2> QED
      BY <2>1, <2>2, EndsInv
  <1>3. CASE Len(k.stack) = 2 /\ r = "ok"
    <2>1. Returns(k, r, thrown) = [k EXCEPT !.stack = Advance(Pop(@))]
      BY <1>3 DEF Returns
    <2>2. Sound(k.stack[2].tx)
      BY <1>3 DEF Worth
    <2> QED
      BY <1>3, <2>1, <2>2, PointerProvedInv
  <1>4. CASE Len(k.stack) = 2 /\ r # "ok" /\ thrown
    <2>1. Returns(k, r, thrown) = [k EXCEPT !.stack = <<>>, !.returned = r]
      BY <1>4 DEF Returns
    <2> QED
      BY <1>4, <2>1, EndsInv
  <1>5. CASE Len(k.stack) = 2 /\ r # "ok" /\ ~thrown
    <2>1. Returns(k, r, thrown)
          = [k EXCEPT !.stack = <<>>, !.returned = "POINTER_FAILED_VERIFICATION"]
      BY <1>5 DEF Returns
    <2>2. "POINTER_FAILED_VERIFICATION" \in Result
      BY DEF Result
    <2>3. "POINTER_FAILED_VERIFICATION" # "ok"
      OBVIOUS
    <2> QED
      BY <2>1, <2>2, <2>3, EndsInv
  <1> QED
    BY <1>1, <1>2, <1>3, <1>4, <1>5

\* A check that starts to check the pointer keeps its invariant.
LEMMA PushInv ==
    ASSUME NEW k, CheckInv(k), Len(k.stack) = 1, k.verifyPointer,
           NEW f, f = k.stack[1], StageAt(f) = "pointer", Clean(f.tx, "pointer"),
           ~IsPost(f.tx), NEW v \in Result, NEW h,
           h = [k EXCEPT
                  !.stack = Append(@, [tx |-> Pointer[f.tx], entry |-> "id",
                                       key |-> "ar", at |-> 1]),
                  !.pointerRecord = v]
    PROVE  CheckInv(h)
  <1>1. k \in Check /\ k.stack \in Seq(Frame) /\ f \in Frame /\ f.tx \in Publications
    <2>1. k \in Check /\ k.stack \in Seq(Frame)
      BY DEF CheckInv, Check
    <2>2. f \in Frame
      BY <2>1
    <2> QED
      BY <2>1, <2>2 DEF Frame
  <1>2. PICK g : g = [tx |-> Pointer[f.tx], entry |-> "id", key |-> "ar", at |-> 1]
    OBVIOUS
  <1>3. g \in Frame /\ g.tx = Pointer[f.tx] /\ g.key = "ar"
    BY <1>1, <1>2, PointerAssumption DEF Frame, Entry, IsPost
  <1>4. FrameInv(g)
    BY <1>2, StagePlaces DEF FrameInv
  <1>5. PICK s : s = Append(k.stack, g)
    OBVIOUS
  <1>6. s \in Seq(Frame) /\ Len(s) = 2 /\ s[1] = f /\ s[2] = g
    BY <1>1, <1>3, <1>5
  <1>7. h = [k EXCEPT !.stack = s, !.pointerRecord = v]
    BY <1>1, <1>2, <1>5 DEF Check
  <1>8. /\ h \in Check /\ h.stack = s /\ h.tx = k.tx
        /\ h.saves = k.saves /\ h.verifyPointer = k.verifyPointer
    BY <1>1, <1>6, <1>7 DEF Check
  <1>9. f.tx = k.tx /\ FrameInv(f)
    BY <1>1 DEF CheckInv, BottomInv
  <1>10. \A i \in 1 .. Len(h.stack) : FrameInv(h.stack[i])
    BY <1>4, <1>6, <1>8, <1>9
  <1>11. BottomInv(h)
    BY <1>6, <1>8, <1>9 DEF CheckInv, BottomInv
  <1>12. PointerInv(h)
    BY <1>3, <1>6, <1>8, <1>9 DEF PointerInv
  <1>13. EndedInv(h)
    BY <1>6, <1>8 DEF EndedInv
  <1> QED
    BY <1>6, <1>8, <1>10, <1>11, <1>12, <1>13 DEF CheckInv

-------------------------------------------------------------------------------
(* The steps *)

\* The errors of every stage of every entry are among those that blame.
LEMMA StageErrors ==
    ASSUME NEW t, NEW entry \in Entry, NEW i \in 1 .. Len(Stages(entry))
    PROVE  ErrorSet(t, Stages(entry)[i]) \subseteq Blame(t)
  <1>1. \A j \in 1 .. 13 : ErrorSet(t, Stages("id")[j]) \subseteq Blame(t)
    BY StageLists DEF Blame
  <1>2. CASE entry = "id"
    BY <1>1, <1>2, StageLists
  <1>3. CASE entry = "metadata"
    <2>1. PICK j \in 1 .. 13 : Stages("id")[j] = Stages("metadata")[i]
      <3>1. i \in 1 .. 11
        BY <1>3, StageLists
      <3>2. i = 1 \/ i = 2 \/ i \in 3 .. 11
        BY <3>1
      <3>3. CASE i = 1
        BY <3>3, StageLists
      <3>4. CASE i = 2
        BY <3>4, StageLists
      <3>5. CASE i \in 3 .. 11
        <4>1. i + 2 \in 5 .. 13 /\ (i + 2) - 4 = i - 2
          BY <3>5
        <4>2. Stages("id")[i + 2] = Stages("metadata")[i]
          BY <4>1, <3>5, StageLists
        <4> QED
          BY <4>1, <4>2
      <3> QED
        BY <3>2, <3>3, <3>4, <3>5
    <2> QED
      BY <1>1, <1>3, <2>1
  <1> QED
    BY <1>2, <1>3 DEF Entry

\* An error is not a success.
LEMMA ErrorsAreNotOk == ASSUME NEW t, NEW stage PROVE "ok" \notin ErrorSet(t, stage)
  <1>1. \A i \in 1 .. Len(Errors(t, stage)) : Errors(t, stage)[i] # "ok"
    BY DEF Errors, PublicationIdErrors, PostPointerErrors, PointerErrors, SimulationErrors,
           SignerErrors
  <1> QED
    BY <1>1 DEF ErrorSet

\* Nor is the answer that did not come.
LEMMA ThirdPartyResult ==
    ASSUME NEW t, NEW entry, NEW stage, NEW e \in ThirdParty(t, entry, stage)
    PROVE  e \in Result /\ e # "ok"
  <1>1. e \in Retriable
    BY DEF ThirdParty, SimulationUnanswered, DetailsUnanswered, BlocksUnanswered, Retriable
  <1> QED
    BY <1>1 DEF Retriable, Result

\* Neither is an error that a stage returns.
LEMMA StageResult ==
    ASSUME NEW f \in Frame, f.at \in 1 .. Len(Stages(f.entry)),
           NEW e \in ErrorSet(f.tx, StageAt(f))
    PROVE  StageError(f.tx, e) \in Result /\ StageError(f.tx, e) # "ok"
  <1>1. e \in Blame(f.tx) /\ f.tx \in Publications
    BY StageErrors DEF Frame, StageAt
  <1>2. e \in Result /\ e # "ok"
    BY <1>1, ErrorsAreNotOk DEF Result
  <1>3. SimulationError(f.tx) \in {"SIMULATION_FAILED", "POTENTIAL_REORG"}
    BY DEF SimulationError
  <1> QED
    BY <1>2, <1>3 DEF StageError, Result

\* The invariant of a check depends on the state through the errors only.
LEMMA PrimedCheckInv ==
    ASSUME defects' = defects, NEW d \in Checkers, CheckInv(checks'[d])
    PROVE  CheckInv(checks[d])'
  <1>1. PICK m : m = checks'[d] /\ CheckInv(m)
    OBVIOUS
  <1>2. (\A i \in 1 .. Len(checks[d].stack) : FrameInv(checks[d].stack[i]))'
    BY <1>1 DEF CheckInv, FrameInv, Clean
  <1>3. BottomInv(checks[d])'
    BY <1>1 DEF CheckInv, BottomInv, PastPointer, Sound
  <1>4. PointerInv(checks[d])'
    BY <1>1 DEF CheckInv, PointerInv, StageAt, Clean
  <1>5. EndedInv(checks[d])'
    BY <1>1 DEF CheckInv, EndedInv, SoundWithPointer, Sound
  <1> QED
    BY <1>1, <1>2, <1>3, <1>4, <1>5 DEF CheckInv

\* A step of one checker keeps the invariant if the check it leaves does.
LEMMA BecomeInv ==
    ASSUME IInv, NEW c \in Checkers, NEW k, CheckInv(k), Become(c, k)
    PROVE  IInv'
  <1>1. /\ checks' = [checks EXCEPT ![c] = k] /\ checks \in [Checkers -> Check]
        /\ defects' = defects /\ record' = record
        /\ reorged' = reorged /\ reorgs' = reorgs
    BY DEF IInv, TypeOK, Become
  <1>2. \A d \in Checkers : CheckInv(checks'[d])
    BY <1>1 DEF IInv
  <1>3. \A d \in Checkers : CheckInv(checks[d])'
    BY <1>1, <1>2, PrimedCheckInv
  <1>4. TypeOK'
    <2>1. checks' \in [Checkers -> Check]
      BY <1>1 DEF CheckInv
    <2>2. \A d \in Checkers : \A i \in 1 .. Len(checks'[d].stack) :
              checks'[d].stack[i].at \in 1 .. Len(Stages(checks'[d].stack[i].entry))
      BY <1>2 DEF CheckInv, FrameInv
    <2> QED
      BY <1>1, <2>1, <2>2 DEF IInv, TypeOK
  <1>5. RecordInv'
    BY <1>1 DEF IInv, RecordInv, SoundWithPointer, Sound
  <1>6. DefectInv'
    BY <1>1 DEF IInv, DefectInv
  <1> QED
    BY <1>3, <1>4, <1>5, <1>6 DEF IInv

\* What is known of the frame on top of a check under way.
LEMMA TopFrame ==
    ASSUME IInv, NEW c \in Checkers, Running(c)
    PROVE  /\ CheckInv(checks[c]) /\ checks[c] \in Check
           /\ checks[c].stack # <<>> /\ Len(checks[c].stack) \in {1, 2}
           /\ Top(c) \in Frame /\ FrameInv(Top(c))
           /\ Top(c).at \in 1 .. Len(Stages(Top(c).entry))
           /\ Await(c) = StageAt(Top(c)) /\ (Last(c) <=> AtLast(Top(c)))
  <1>1. CheckInv(checks[c]) /\ checks[c] \in Check /\ checks[c].stack # <<>>
    BY DEF IInv, CheckInv, Running
  <1>2. checks[c].stack \in Seq(Frame) /\ Len(checks[c].stack) \in {1, 2}
    BY <1>1 DEF CheckInv, Check
  <1>3. Top(c) \in Frame /\ FrameInv(Top(c))
    BY <1>1, <1>2 DEF Top, CheckInv
  <1>4. Top(c).at \in 1 .. Len(Stages(Top(c).entry))
    BY <1>3 DEF FrameInv
  <1>5. Await(c) = StageAt(Top(c)) /\ (Last(c) <=> AtLast(Top(c)))
    BY DEF Await, Last, StageAt, AtLast
  <1> QED
    BY <1>1, <1>2, <1>3, <1>4, <1>5

\* A check that begins.
LEMMA StartStep ==
    ASSUME IInv, NEW c \in Checkers, NEW t \in Publications, NEW entry \in Entry,
           NEW b \in BOOLEAN, NEW v \in BOOLEAN, Start(c, t, entry, b, v)
    PROVE  IInv'
  <1>1. PICK f : f = [tx |-> t, entry |-> entry, key |-> "plain", at |-> First(b)]
    OBVIOUS
  <1>2. PICK k : k = [Idle EXCEPT !.tx = t, !.stack = <<f>>, !.verifyPointer = v,
                                  !.saves = entry = "metadata"]
    OBVIOUS
  <1>3. Become(c, k)
    BY <1>1, <1>2 DEF Start
  <1>4. First(b) \in {1, 2}
    BY DEF First
  <1>5. f \in Frame /\ f.tx = t /\ f.entry = entry /\ f.at \in {1, 2}
    BY <1>1, <1>4 DEF Frame
  <1>6. FrameInv(f)
    <2>1. f.at \in 1 .. Len(Stages(f.entry))
      <3>1. Len(Stages(entry)) = 13 \/ Len(Stages(entry)) = 11
        BY StageLists DEF Entry
      <3>2. f.at = 1 \/ f.at = 2
        BY <1>5
      <3>3. PICK n \in {11, 13} : n = Len(Stages(f.entry))
        BY <3>1, <1>5
      <3>4. f.at \in 1 .. n
        BY <3>2
      <3> QED
        BY <3>3, <3>4
    <2>2. f.entry = "metadata" => "INVALID_TX_ID" \notin defects[f.tx]
      BY <1>5 DEF Start
    <2>3. \A i \in 1 .. f.at - 1 : Clean(f.tx, Stages(f.entry)[i])
      <3>1. \A i \in 1 .. f.at - 1 : i = 1
        BY <1>5
      <3>2. Stages(f.entry)[1] = "cache"
        BY <1>5, StagePlaces
      <3> QED
        BY <3>1, <3>2, CacheIsClean
    <2> QED
      BY <2>1, <2>2, <2>3 DEF FrameInv
  <1>7. PICK s : s = <<f>>
    OBVIOUS
  <1>8. s \in Seq(Frame) /\ Len(s) = 1 /\ s[1] = f /\ s # <<>>
    BY <1>5, <1>7
  <1>9. "none" \in Result
    BY DEF Result
  <1>10. PICK m \in BOOLEAN : m = (entry = "metadata")
    OBVIOUS
  <1>11. k = [tx |-> t, stack |-> s, verifyPointer |-> v, returned |-> "none",
              unanswered |-> FALSE, gone |-> FALSE, cached |-> FALSE, saves |-> m,
              pointerRecord |-> "none"]
    BY <1>2, <1>7, <1>10 DEF Idle
  <1>12. k \in Check
    BY <1>8, <1>9, <1>11 DEF Check
  <1>13. ~PastPointer(f)
    <2>1. \A i \in 1 .. f.at - 1 : i = 1
      BY <1>5
    <2>2. Stages(f.entry)[1] = "cache"
      BY <1>5, StagePlaces
    <2> QED
      BY <2>1, <2>2 DEF PastPointer
  <1>14. k.tx = t /\ k.stack = s /\ k.verifyPointer = v /\ k.saves = m
    BY <1>11
  <1>15. k.saves => k.verifyPointer
    BY <1>10, <1>14 DEF Start
  <1>16. BottomInv(k)
    BY <1>5, <1>8, <1>13, <1>14 DEF BottomInv
  <1>17. PointerInv(k) /\ EndedInv(k)
    BY <1>8, <1>14 DEF PointerInv, EndedInv
  <1>18. CheckInv(k)
    <2>1. \A i \in 1 .. Len(k.stack) : FrameInv(k.stack[i])
      <3>1. \A i \in 1 .. Len(s) : i = 1
        BY <1>8
      <3>2. k.stack[1] = f
        BY <1>8, <1>14
      <3> QED
        BY <3>1, <3>2, <1>6, <1>14
    <2>2. Len(k.stack) \in 0 .. 2
      BY <1>8, <1>14
    <2> QED
      BY <2>1, <2>2, <1>12, <1>15, <1>16, <1>17 DEF CheckInv
  <1> QED
    BY <1>3, <1>18, BecomeInv

\* The lookup of the record.
LEMMA ReadCacheStep ==
    ASSUME IInv, NEW c \in Checkers, ReadCache(c)
    PROVE  IInv'
  <1>1. /\ CheckInv(checks[c]) /\ checks[c] \in Check
        /\ checks[c].stack # <<>> /\ Len(checks[c].stack) \in {1, 2}
        /\ Top(c) \in Frame /\ FrameInv(Top(c))
        /\ Top(c).at \in 1 .. Len(Stages(Top(c).entry))
        /\ Await(c) = StageAt(Top(c))
    BY TopFrame DEF ReadCache
  <1>2. CASE Recorded(Top(c))
    <2>1. PICK h : h = [checks[c] EXCEPT !.cached = TRUE]
      OBVIOUS
    <2>2. /\ h \in Check /\ h.tx = checks[c].tx /\ h.stack = checks[c].stack
          /\ h.verifyPointer = checks[c].verifyPointer /\ h.returned = checks[c].returned
          /\ h.saves = checks[c].saves
      BY <1>1, <2>1 DEF Check
    <2>3. CheckInv(h)
      BY <1>1, <2>2, HistoryInv
    <2>4. Top(c).tx \in Publications /\ record[Top(c).tx] \in Result
      BY <1>1 DEF Frame, IInv, TypeOK
    <2>5. Worth(h, record[Top(c).tx])
      <3>1. record[Top(c).tx] = "ok" => SoundWithPointer(Top(c).tx)
        BY <2>4 DEF IInv, RecordInv
      <3> QED
        BY <2>2, <3>1 DEF Worth, Top, SoundWithPointer
    <2>6. CheckInv(Returns(h, record[Top(c).tx], FALSE))
      BY <1>1, <2>2, <2>3, <2>4, <2>5, ReturnsInv
    <2>7. Become(c, Returns(h, record[Top(c).tx], FALSE))
      BY <1>2, <2>1 DEF ReadCache
    <2> QED
      BY <2>6, <2>7, BecomeInv
  <1>3. CASE ~Recorded(Top(c))
    <2>1. Become(c, Passes(checks[c])) /\ StageAt(Top(c)) = "cache"
      BY <1>1, <1>3 DEF ReadCache
    <2>2. Clean(Top(c).tx, StageAt(Top(c)))
      BY <2>1, CacheIsClean
    <2>3. ~AtLast(Top(c))
      BY <1>1, <2>1, LastStage
    <2>4. CheckInv(Passes(checks[c]))
      BY <1>1, <2>1, <2>2, <2>3, PassesInv DEF Top
    <2> QED
      BY <2>1, <2>4, BecomeInv
  <1> QED
    BY <1>2, <1>3

\* Whoever returns an error keeps the invariant.
LEMMA ErrorInv ==
    ASSUME NEW k, CheckInv(k), k.stack # <<>>, NEW r \in Result, r # "ok",
           NEW thrown \in BOOLEAN
    PROVE  CheckInv(Returns(k, r, thrown))
  BY ReturnsInv DEF Worth

\* A stage blames the publication.
LEMMA FailStep == ASSUME IInv, NEW c \in Checkers, Fail(c) PROVE IInv'
  <1>1. /\ CheckInv(checks[c]) /\ checks[c] \in Check
        /\ checks[c].stack # <<>> /\ Len(checks[c].stack) \in {1, 2}
        /\ Top(c) \in Frame /\ FrameInv(Top(c))
        /\ Top(c).at \in 1 .. Len(Stages(Top(c).entry))
        /\ Await(c) = StageAt(Top(c)) /\ (Last(c) <=> AtLast(Top(c)))
    BY TopFrame DEF Fail
  <1>2. PICK i \in 1 .. Len(Errors(Top(c).tx, Await(c))) :
            Become(c, Returns(checks[c],
                              StageError(Top(c).tx, Errors(Top(c).tx, Await(c))[i]), FALSE))
    BY DEF Fail
  <1>3. Errors(Top(c).tx, Await(c))[i] \in ErrorSet(Top(c).tx, StageAt(Top(c)))
    BY <1>1 DEF ErrorSet
  <1>4. PICK r : r = StageError(Top(c).tx, Errors(Top(c).tx, Await(c))[i])
    OBVIOUS
  <1>5. r \in Result /\ r # "ok"
    BY <1>1, <1>3, <1>4, StageResult
  <1>6. CheckInv(Returns(checks[c], r, FALSE))
    BY <1>1, <1>5, ErrorInv
  <1> QED
    BY <1>2, <1>4, <1>6, BecomeInv

\* A block was lost.
LEMMA FailOnLostBlockStep == ASSUME IInv, NEW c \in Checkers, FailOnLostBlock(c) PROVE IInv'
  <1>1. /\ CheckInv(checks[c]) /\ checks[c] \in Check
        /\ checks[c].stack # <<>> /\ Len(checks[c].stack) \in {1, 2}
        /\ Top(c) \in Frame /\ FrameInv(Top(c))
        /\ Top(c).at \in 1 .. Len(Stages(Top(c).entry))
        /\ Await(c) = StageAt(Top(c)) /\ (Last(c) <=> AtLast(Top(c)))
    BY TopFrame DEF FailOnLostBlock
  <1>2. PICK h : h = [checks[c] EXCEPT !.gone = TRUE]
    OBVIOUS
  <1>3. PICK e \in ErrorSet(Top(c).tx, Await(c)) :
            Become(c, Returns(h, StageError(Top(c).tx, e), FALSE))
    BY <1>2 DEF FailOnLostBlock
  <1>4. /\ h \in Check /\ h.tx = checks[c].tx /\ h.stack = checks[c].stack
        /\ h.verifyPointer = checks[c].verifyPointer /\ h.returned = checks[c].returned
        /\ h.saves = checks[c].saves
    BY <1>1, <1>2 DEF Check
  <1>5. CheckInv(h) /\ h.stack # <<>>
    BY <1>1, <1>4, HistoryInv
  <1>6. PICK r : r = StageError(Top(c).tx, e)
    OBVIOUS
  <1>7. r \in Result /\ r # "ok"
    BY <1>1, <1>6, StageResult
  <1>8. CheckInv(Returns(h, r, FALSE))
    BY <1>5, <1>7, ErrorInv
  <1> QED
    BY <1>3, <1>6, <1>8, BecomeInv

\* Someone does not answer.
LEMMA NoAnswerStep == ASSUME IInv, NEW c \in Checkers, NoAnswer(c) PROVE IInv'
  <1>1. /\ CheckInv(checks[c]) /\ checks[c] \in Check
        /\ checks[c].stack # <<>> /\ Len(checks[c].stack) \in {1, 2}
        /\ Top(c) \in Frame /\ FrameInv(Top(c))
        /\ Top(c).at \in 1 .. Len(Stages(Top(c).entry))
        /\ Await(c) = StageAt(Top(c)) /\ (Last(c) <=> AtLast(Top(c)))
    BY TopFrame DEF NoAnswer
  <1>2. PICK h : h = [checks[c] EXCEPT !.unanswered = TRUE]
    OBVIOUS
  <1>3. PICK thrown \in BOOLEAN : thrown = (Await(c) = "owner")
    OBVIOUS
  <1>4. PICK e \in ThirdParty(Top(c).tx, Top(c).entry, Await(c)) :
            Become(c, Returns(h, e, thrown))
    BY <1>2, <1>3 DEF NoAnswer
  <1>5. /\ h \in Check /\ h.tx = checks[c].tx /\ h.stack = checks[c].stack
        /\ h.verifyPointer = checks[c].verifyPointer /\ h.returned = checks[c].returned
        /\ h.saves = checks[c].saves
    BY <1>1, <1>2 DEF Check
  <1>6. CheckInv(h) /\ h.stack # <<>>
    BY <1>1, <1>5, HistoryInv
  <1>7. e \in Result /\ e # "ok"
    BY ThirdPartyResult
  <1>8. CheckInv(Returns(h, e, thrown))
    BY <1>6, <1>7, ErrorInv
  <1> QED
    BY <1>4, <1>8, BecomeInv

\* A stage is passed, or the last one ends the check.
LEMMA SucceedStep == ASSUME IInv, NEW c \in Checkers, Succeed(c) PROVE IInv'
  <1>1. /\ CheckInv(checks[c]) /\ checks[c] \in Check
        /\ checks[c].stack # <<>> /\ Len(checks[c].stack) \in {1, 2}
        /\ Top(c) \in Frame /\ FrameInv(Top(c))
        /\ Top(c).at \in 1 .. Len(Stages(Top(c).entry))
        /\ Await(c) = StageAt(Top(c)) /\ (Last(c) <=> AtLast(Top(c)))
    BY TopFrame DEF Succeed
  <1>2. Clean(Top(c).tx, StageAt(Top(c))) /\ StageAt(Top(c)) # "pointer"
    BY <1>1 DEF Succeed
  <1>3. CASE ~Last(c)
    <2>1. Become(c, Passes(checks[c]))
      BY <1>3 DEF Succeed
    <2>2. CheckInv(Passes(checks[c]))
      BY <1>1, <1>2, <1>3, PassesInv DEF Top
    <2> QED
      BY <2>1, <2>2, BecomeInv
  <1>4. CASE Last(c)
    <2>1. Become(c, Returns(checks[c], "ok", FALSE))
      BY <1>4 DEF Succeed
    <2>2. Top(c).tx \in Publications
      BY <1>1 DEF Frame
    <2>3. defects[Top(c).tx] \subseteq Blame(Top(c).tx)
      BY <2>2 DEF IInv, DefectInv
    <2>4. Sound(Top(c).tx)
      BY <1>1, <1>2, <1>4, <2>3, Completed
    <2>5. PastPointer(Top(c))
      BY <1>1, <1>4, LastStage
    <2>6. Len(checks[c].stack) = 1 /\ checks[c].verifyPointer => SoundWithPointer(Top(c).tx)
      <3> SUFFICES ASSUME Len(checks[c].stack) = 1, checks[c].verifyPointer
                   PROVE  SoundWithPointer(Top(c).tx)
        OBVIOUS
      <3>1. Top(c) = checks[c].stack[1]
        BY DEF Top
      <3>2. ~IsPost(Top(c).tx) => Sound(Pointer[Top(c).tx])
        BY <1>1, <2>5, <3>1 DEF CheckInv, BottomInv
      <3> QED
        BY <2>4, <3>2 DEF SoundWithPointer
    <2>7. Worth(checks[c], "ok")
      BY <2>4, <2>6 DEF Worth, Top
    <2>8. "ok" \in Result
      BY DEF Result
    <2>9. CheckInv(Returns(checks[c], "ok", FALSE))
      BY <1>1, <2>7, <2>8, ReturnsInv
    <2> QED
      BY <2>1, <2>9, BecomeInv
  <1> QED
    BY <1>3, <1>4

\* The pointer's stage is passed, or the check of the pointer starts.
LEMMA SucceedPointerStep == ASSUME IInv, NEW c \in Checkers, SucceedPointer(c) PROVE IInv'
  <1>1. /\ CheckInv(checks[c]) /\ checks[c] \in Check
        /\ checks[c].stack # <<>> /\ Len(checks[c].stack) \in {1, 2}
        /\ Top(c) \in Frame /\ FrameInv(Top(c))
        /\ Top(c).at \in 1 .. Len(Stages(Top(c).entry))
        /\ Await(c) = StageAt(Top(c)) /\ (Last(c) <=> AtLast(Top(c)))
    BY TopFrame DEF SucceedPointer
  <1>2. StageAt(Top(c)) = "pointer" /\ Clean(Top(c).tx, "pointer") /\ ~AtLast(Top(c))
    BY <1>1, PointerNotLast DEF SucceedPointer
  <1>3. CASE IsPost(Top(c).tx) \/ ~VerifyPointer(checks[c])
    <2>1. Become(c, Passes(checks[c]))
      BY <1>3 DEF SucceedPointer
    <2>2. IsPost(Top(c).tx) \/ ~checks[c].verifyPointer \/ Len(checks[c].stack) = 2
      BY <1>1, <1>3 DEF VerifyPointer
    <2>3. CheckInv(Passes(checks[c]))
      BY <1>1, <1>2, <2>2, PassesInv DEF Top
    <2> QED
      BY <2>1, <2>3, BecomeInv
  <1>4. CASE ~IsPost(Top(c).tx) /\ VerifyPointer(checks[c])
    <2>1. Len(checks[c].stack) = 1 /\ checks[c].verifyPointer
      BY <1>4 DEF VerifyPointer
    <2>2. Top(c) = checks[c].stack[1]
      BY <2>1 DEF Top
    <2>3. record[Pointer[Top(c).tx]] \in Result
      BY <1>1, <1>4, PointerAssumption DEF IInv, TypeOK, Frame, IsPost
    <2>4. PICK h : h = [checks[c] EXCEPT
                          !.stack = Append(@, [tx |-> Pointer[Top(c).tx], entry |-> "id",
                                               key |-> "ar", at |-> 1]),
                          !.pointerRecord = record[Pointer[Top(c).tx]]]
      OBVIOUS
    <2>5. Become(c, h)
      BY <1>4, <2>4 DEF SucceedPointer
    <2>6. CheckInv(h)
      BY <1>1, <1>2, <1>4, <2>1, <2>2, <2>3, <2>4, PushInv
    <2> QED
      BY <2>5, <2>6, BecomeInv
  <1> QED
    BY <1>3, <1>4

\* No check is under way.
LEMMA IdleInv == CheckInv(Idle)
  <1>1. PICK s \in Seq(Frame) : s = <<>>
    <2>1. <<>> \in Seq(Frame)
      OBVIOUS
    <2> QED
      BY <2>1
  <1>2. Len(s) = 0 /\ "none" \in Result
    BY <1>1 DEF Result
  <1>3. Idle = [tx |-> NoPointer, stack |-> s, verifyPointer |-> TRUE, returned |-> "none",
                unanswered |-> FALSE, gone |-> FALSE, cached |-> FALSE, saves |-> FALSE,
                pointerRecord |-> "none"]
    BY <1>1 DEF Idle
  <1>4. Idle \in Check
    BY <1>2, <1>3 DEF Check
  <1>5. Idle.tx = NoPointer /\ Idle.stack = s /\ ~Idle.saves
    BY <1>3
  <1>6. \A i \in 1 .. Len(Idle.stack) : FrameInv(Idle.stack[i])
    BY <1>2, <1>5
  <1>7. BottomInv(Idle) /\ PointerInv(Idle) /\ EndedInv(Idle)
    BY <1>1, <1>2, <1>5 DEF BottomInv, PointerInv, EndedInv
  <1> QED
    BY <1>2, <1>4, <1>5, <1>6, <1>7 DEF CheckInv

\* The result is handed over, and saved by the node.
LEMMA FinishStep == ASSUME IInv, NEW c \in Checkers, Finish(c) PROVE IInv'
  <1>1. /\ CheckInv(checks[c]) /\ checks[c] \in Check /\ checks[c].stack = <<>>
        /\ checks[c].tx # NoPointer /\ checks \in [Checkers -> Check]
        /\ record \in [Publications -> Result]
    BY DEF IInv, TypeOK, CheckInv, Finish, Ended, Running
  <1>2. checks[c].tx \in Publications /\ checks[c].returned \in Result
    BY <1>1 DEF Check
  <1>3. \A d \in Checkers : checks'[d] = Idle \/ checks'[d] = checks[d]
    BY <1>1 DEF Finish
  <1>4. \A d \in Checkers : CheckInv(checks'[d])
    BY <1>3, IdleInv DEF IInv
  <1>5. checks' \in [Checkers -> Check]
    BY <1>1, IdleInv DEF Finish, CheckInv
  <1>6. record' \in [Publications -> Result]
    BY <1>1, <1>2 DEF Finish
  <1>7. checks[c].saves /\ checks[c].returned = "ok" => SoundWithPointer(checks[c].tx)
    BY <1>1 DEF CheckInv, EndedInv
  <1>8. \A t \in Publications : record'[t] = "ok" => SoundWithPointer(t)
    BY <1>1, <1>2, <1>7 DEF Finish, IInv, RecordInv
  <1>9. defects' = defects /\ reorged' = reorged /\ reorgs' = reorgs
    BY DEF Finish
  <1>10. \A d \in Checkers : CheckInv(checks[d])'
    BY <1>4, <1>9, PrimedCheckInv
  <1>11. TypeOK'
    <2>1. \A d \in Checkers : \A i \in 1 .. Len(checks'[d].stack) :
              checks'[d].stack[i].at \in 1 .. Len(Stages(checks'[d].stack[i].entry))
      BY <1>4 DEF CheckInv, FrameInv
    <2> QED
      BY <1>5, <1>6, <1>9, <2>1 DEF IInv, TypeOK
  <1>12. RecordInv'
    BY <1>8, <1>9 DEF RecordInv, SoundWithPointer, Sound
  <1>13. DefectInv'
    BY <1>9 DEF IInv, DefectInv
  <1> QED
    BY <1>10, <1>11, <1>12, <1>13 DEF IInv

\* What does not change the checks and the records keeps the invariant.
LEMMA QuietStep ==
    ASSUME IInv, UNCHANGED <<defects, checks, record>>,
           reorged' \subseteq Publications, reorgs' \in 0 .. MaxReorgs
    PROVE  IInv'
  <1>1. TypeOK'
    BY DEF IInv, TypeOK
  <1>2. \A d \in Checkers : CheckInv(checks[d])'
    BY DEF IInv, CheckInv, FrameInv, BottomInv, PastPointer, PointerInv, EndedInv, StageAt,
           Sound, SoundWithPointer, Clean
  <1>3. RecordInv'
    BY DEF IInv, RecordInv, SoundWithPointer, Sound
  <1>4. DefectInv'
    BY DEF IInv, DefectInv
  <1> QED
    BY <1>1, <1>2, <1>3, <1>4 DEF IInv

\* A block leaves the chain or comes back.
LEMMA ReorgStep == ASSUME IInv, NEW t \in Publications, Reorg(t) PROVE IInv'
  <1>1. reorged' \subseteq Publications
    BY DEF IInv, TypeOK, Reorg
  <1>2. reorgs' \in 0 .. MaxReorgs
    BY BoundAssumption DEF IInv, TypeOK, Reorg
  <1> QED
    BY <1>1, <1>2, QuietStep DEF Reorg

\* The invariant is one of the specification.
LEMMA CheckerInvariant == Spec => []IInv
  <1>1. Init => IInv
    <2> SUFFICES ASSUME Init PROVE IInv
      OBVIOUS
    <2>1. \A c \in Checkers : CheckInv(checks[c])
      BY IdleInv DEF Init
    <2>2. TypeOK
      <3>1. checks \in [Checkers -> Check] /\ record \in [Publications -> Result]
        BY IdleInv DEF Init, CheckInv, Result
      <3>2. \A c \in Checkers : \A i \in 1 .. Len(checks[c].stack) :
                checks[c].stack[i].at \in 1 .. Len(Stages(checks[c].stack[i].entry))
        BY <2>1 DEF CheckInv, FrameInv
      <3>3. defects \in [Publications -> SUBSET Result]
        <4>1. defects \in [Publications -> SUBSET UNION {Blame(t) : t \in Publications}]
          BY DefectsAssumption DEF Init
        <4>2. UNION {Blame(t) : t \in Publications} \subseteq Result
          BY DEF Result
        <4> QED
          BY <4>1, <4>2
      <3> QED
        BY <3>1, <3>2, <3>3, BoundAssumption DEF Init, TypeOK
    <2>3. RecordInv
      BY DEF Init, RecordInv
    <2>4. DefectInv
      BY DefectsAssumption DEF Init, DefectInv
    <2> QED
      BY <2>1, <2>2, <2>3, <2>4 DEF IInv
  <1>2. IInv /\ [Next]_vars => IInv'
    <2> SUFFICES ASSUME IInv, [Next]_vars PROVE IInv'
      OBVIOUS
    <2>1. CASE \E c \in Checkers : CheckStep(c)
      BY <2>1, ReadCacheStep, FailStep, FailOnLostBlockStep, NoAnswerStep, SucceedStep,
         SucceedPointerStep, FinishStep DEF CheckStep
    <2>2. CASE \E c \in Checkers, t \in Publications, entry \in Entry, b, v \in BOOLEAN :
                   Start(c, t, entry, b, v)
      BY <2>2, StartStep
    <2>3. CASE \E t \in Publications : Reorg(t)
      BY <2>3, ReorgStep
    <2>4. CASE UNCHANGED vars
      BY <2>4, QuietStep DEF vars, IInv, TypeOK
    <2> QED
      BY <2>1, <2>2, <2>3, <2>4 DEF Next
  <1> QED
    BY <1>1, <1>2, PTL DEF Spec

-------------------------------------------------------------------------------
(* Theorems *)

\* Type correctness of the checks.
THEOREM CheckerTypeCorrect == Spec => []TypeOK
  <1>1. IInv => TypeOK
    BY DEF IInv
  <1> QED
    BY <1>1, CheckerInvariant, PTL

\* Whatever the pointers are, a check goes no deeper than the first of them
\* (README.md:101).
THEOREM DepthBounded == Spec => []OnlyFirstPointer
  <1>1. IInv => OnlyFirstPointer
    BY DEF IInv, CheckInv, OnlyFirstPointer
  <1> QED
    BY <1>1, CheckerInvariant, PTL

\* Nothing is accepted, or on record as accepted, that something is wrong with,
\* for all publications, errors, pointers and numbers of concurrent checks.
THEOREM AcceptanceSound == Spec => []AcceptedIsSound
  <1>1. IInv => AcceptedIsSound
    BY DEF IInv, CheckInv, EndedInv, RecordInv, AcceptedIsSound, Ended, Running
  <1> QED
    BY <1>1, CheckerInvariant, PTL

-------------------------------------------------------------------------------
(* Rejections *)

\* What a check that has ended owes to the one whose publication it rejects.
Founded(k) ==
    k.stack = <<>> /\ k.tx # NoPointer /\ ~k.cached /\ k.returned # "ok" =>
        /\ \/ ShouldRetry(k.returned)
           \/ k.gone
           \/ k.returned \in defects[k.tx]
           \/ /\ k.returned = "POINTER_FAILED_VERIFICATION" /\ ~IsPost(k.tx)
              /\ k.unanswered \/ ~Sound(Pointer[k.tx])
        /\ \/ k.gone \/ k.unanswered
           \/ IsFirstError(k.tx, k.verifyPointer, k.returned)

FoundedInv == \A c \in Checkers : Founded(checks[c])

\* Whether a check is founded depends on the check and on the defects.
LEMMA FoundedCarries ==
    ASSUME defects' = defects, NEW d, NEW m, m = checks'[d], Founded(m)
    PROVE  Founded(checks[d])'
  BY DEF Founded, Sound, IsPost, IsFirstError, FirstOfStage, PointerHolds, Clean

\* One check is replaced by a founded one.
LEMMA BecomeFounded ==
    ASSUME IInv, FoundedInv, NEW c \in Checkers, NEW k, Founded(k),
           checks' = [checks EXCEPT ![c] = k], defects' = defects
    PROVE  FoundedInv'
  <1>1. checks \in [Checkers -> Check]
    BY DEF IInv, TypeOK
  <1>2. \A d \in Checkers : checks'[d] = k \/ checks'[d] = checks[d]
    BY <1>1
  <1>3. ASSUME NEW d \in Checkers PROVE Founded(checks[d])'
    <2>1. PICK m : m = checks'[d] /\ Founded(m)
      BY <1>2 DEF FoundedInv
    <2> QED
      BY <2>1, FoundedCarries
  <1> QED
    BY <1>3 DEF FoundedInv

\* A check that goes on has rejected nothing yet.
LEMMA PassesFounded ==
    ASSUME NEW k \in Check, k.stack # <<>>
    PROVE  Founded(Passes(k))
  <1>1. Passes(k).stack = Advance(k.stack) /\ k.stack \in Seq(Frame)
    BY DEF Passes, Check
  <1>2. Len(Advance(k.stack)) = Len(k.stack)
    BY <1>1, AdvancedStack
  <1>3. Advance(k.stack) # <<>>
    BY <1>1, <1>2
  <1> QED
    BY <1>1, <1>3 DEF Founded

\* What a check returns for its own publication and for that of its pointer.
LEMMA ReturnsError ==
    ASSUME NEW k \in Check, NEW r, r # "ok", NEW thrown \in BOOLEAN
    PROVE  LET h == Returns(k, r, thrown)
           IN /\ h.stack = <<>> /\ h.tx = k.tx /\ h.cached = k.cached
              /\ h.verifyPointer = k.verifyPointer
              /\ h.gone = k.gone /\ h.unanswered = k.unanswered
              /\ h.returned = IF Len(k.stack) = 1 \/ thrown THEN r
                              ELSE "POINTER_FAILED_VERIFICATION"
  BY DEF Returns, Check

\* The pointer's own check, when it is the one on top.
LEMMA TopOfPointer ==
    ASSUME IInv, NEW c \in Checkers, Running(c)
    PROVE  /\ Len(checks[c].stack) = 1 => Top(c).tx = checks[c].tx
           /\ Len(checks[c].stack) # 1 =>
                 ~IsPost(checks[c].tx) /\ Top(c).tx = Pointer[checks[c].tx] /\ Top(c).key = "ar"
  <1>1. CheckInv(checks[c]) /\ Len(checks[c].stack) \in {1, 2} /\ checks[c].stack # <<>>
    BY TopFrame
  <1> QED
    BY <1>1 DEF CheckInv, BottomInv, PointerInv, Top

\* The stage of a check with metadata among those of a check by id.
Place(f) == IF f.entry = "id" \/ f.at = 1 THEN f.at ELSE f.at + 2

\* Both entries make the same tests in the same order.
LEMMA PlaceOfFrame ==
    ASSUME NEW f \in Frame, FrameInv(f)
    PROVE  /\ Place(f) \in 1 .. 13 /\ Stages("id")[Place(f)] = StageAt(f)
           /\ \A j \in 1 .. Place(f) - 1 : Clean(f.tx, Stages("id")[j])
           /\ \A j \in 1 .. Place(f) - 1 : Stages("id")[j] = "pointer" => PastPointer(f)
  <1>1. CASE f.entry = "id"
    <2>1. Place(f) = f.at /\ f.at \in 1 .. 13
      BY <1>1, StageLists DEF Place, FrameInv
    <2> QED
      BY <1>1, <2>1 DEF StageAt, FrameInv, PastPointer
  <1>2. CASE f.entry = "metadata"
    <2>1. f.at \in 1 .. 11 /\ \A i \in 1 .. f.at - 1 : Clean(f.tx, Stages("metadata")[i])
      BY <1>2, StageLists DEF FrameInv
    <2>2. CASE f.at = 1
      <3>1. Place(f) = 1 /\ StageAt(f) = "cache"
        BY <1>2, <2>2, StageLists DEF Place, StageAt
      <3> QED
        BY <3>1, StageLists
    <2>3. CASE f.at \in 2 .. 11
      <3>1. Place(f) = f.at + 2
        BY <1>2, <2>3 DEF Place
      <3>2. \A j \in 4 .. 13 : Stages("id")[j] = Stages("metadata")[j - 2]
        BY StageLists DEF Proof
      <3>3. f.at + 2 \in 4 .. 13 /\ (f.at + 2) - 2 = f.at
        BY <2>3
      <3>4. StageAt(f) = Stages("id")[Place(f)] /\ Place(f) \in 1 .. 13
        BY <1>2, <3>1, <3>2, <3>3 DEF StageAt
      <3>5. ASSUME NEW j \in 1 .. Place(f) - 1
            PROVE  /\ Clean(f.tx, Stages("id")[j])
                   /\ Stages("id")[j] = "pointer" => PastPointer(f)
        <4>1. j \in {1, 2, 3} \/ (j \in 4 .. 13 /\ j - 2 \in 1 .. f.at - 1)
          BY <2>3, <3>1, <3>5
        <4>2. CASE j \in 4 .. 13 /\ j - 2 \in 1 .. f.at - 1
          BY <1>2, <2>1, <3>2, <4>2 DEF PastPointer
        <4>3. CASE j = 1
          BY <4>3, StageLists, CacheIsClean
        <4>4. CASE j \in {2, 3}
          <5>1. Stages("id")[j] \in {"publication", "timestampProofs"}
            BY <4>4, StageLists
          <5>2. ErrorSet(f.tx, Stages("id")[j]) \subseteq {"INVALID_TX_ID"}
            <6>1. Errors(f.tx, Stages("id")[j]) = <<"INVALID_TX_ID">>
              BY <5>1 DEF Errors
            <6> QED
              BY <6>1 DEF ErrorSet
          <5>3. "INVALID_TX_ID" \notin defects[f.tx]
            BY <1>2 DEF FrameInv
          <5> QED
            BY <5>1, <5>2, <5>3 DEF Clean
        <4> QED
          BY <4>1, <4>2, <4>3, <4>4
      <3> QED
        BY <3>4, <3>5
    <2> QED
      BY <2>1, <2>2, <2>3
  <1> QED
    BY <1>1, <1>2 DEF Frame, Entry

\* The error of a publication's own stage is the first.
LEMMA OwnErrorIsFirst ==
    ASSUME NEW k, CheckInv(k), Len(k.stack) = 1,
           NEW e, FirstOfStage(k.tx, StageAt(k.stack[1]), e)
    PROVE  IsFirstError(k.tx, k.verifyPointer, e)
  <1>1. PICK f \in Frame : f = k.stack[1] /\ FrameInv(f) /\ f.tx = k.tx
    <2>1. k.stack \in Seq(Frame) /\ k.stack # <<>>
      BY DEF CheckInv, Check
    <2> QED
      BY <2>1 DEF CheckInv, BottomInv
  <1>2. PastPointer(f) => PointerHolds(k.tx, k.verifyPointer)
    <2>1. k.stack # <<>>
      BY DEF CheckInv, Check
    <2> QED
      BY <1>1, <2>1 DEF CheckInv, BottomInv, PointerHolds
  <1>3. PICK i \in 1 .. Len(Stages("id")) : i = Place(f)
    BY <1>1, PlaceOfFrame, StageLists
  <1>4. /\ Stages("id")[i] = StageAt(f)
        /\ \A j \in 1 .. i - 1 : Clean(k.tx, Stages("id")[j])
        /\ \A j \in 1 .. i - 1 : Stages("id")[j] = "pointer" => PastPointer(f)
    BY <1>1, <1>3, PlaceOfFrame
  <1> QED
    BY <1>1, <1>2, <1>3, <1>4 DEF IsFirstError

\* So is the error of its pointer.
LEMMA PointerErrorIsFirst ==
    ASSUME NEW k, CheckInv(k), Len(k.stack) = 2, ~Sound(Pointer[k.tx])
    PROVE  IsFirstError(k.tx, k.verifyPointer, "POINTER_FAILED_VERIFICATION")
  <1>1. PICK f \in Frame : f = k.stack[1] /\ FrameInv(f) /\ f.tx = k.tx
    <2>1. k.stack \in Seq(Frame) /\ k.stack # <<>>
      BY DEF CheckInv, Check
    <2> QED
      BY <2>1 DEF CheckInv, BottomInv
  <1>2. StageAt(f) = "pointer" /\ Clean(k.tx, "pointer") /\ ~PointerHolds(k.tx, k.verifyPointer)
    BY <1>1 DEF CheckInv, PointerInv, PointerHolds
  <1>3. PICK i \in 1 .. Len(Stages("id")) : i = Place(f)
    BY <1>1, PlaceOfFrame, StageLists
  <1>4. Stages("id")[i] = "pointer" /\ \A j \in 1 .. i - 1 : Clean(k.tx, Stages("id")[j])
    BY <1>1, <1>2, <1>3, PlaceOfFrame
  <1>5. "pointer" \notin {Stages("id")[j] : j \in 1 .. i - 1}
    <2>1. i = 10
      BY <1>3, <1>4, StagePlaces
    <2> QED
      BY <2>1, StagePlaces
  <1> QED
    BY <1>2, <1>4, <1>5 DEF IsFirstError

LEMMA ReadCacheFounded ==
    ASSUME IInv, FoundedInv, NEW c \in Checkers, ReadCache(c)
    PROVE  FoundedInv'
  <1>1. checks[c] \in Check /\ checks[c].stack # <<>>
    BY TopFrame DEF ReadCache
  <1>2. CASE ~Recorded(Top(c))
    BY <1>1, <1>2, PassesFounded, BecomeFounded DEF ReadCache, Become
  <1>3. CASE Recorded(Top(c))
    <2>1. PICK h : h = [checks[c] EXCEPT !.cached = TRUE]
      OBVIOUS
    <2>2. h \in Check /\ h.cached
      BY <1>1, <2>1 DEF Check
    <2>3. PICK k : k = Returns(h, record[Top(c).tx], FALSE)
      OBVIOUS
    <2>4. k.cached
      BY <2>2, <2>3 DEF Returns, Check
    <2>5. Founded(k)
      BY <2>4 DEF Founded
    <2> QED
      BY <1>3, <2>1, <2>3, <2>5, BecomeFounded DEF ReadCache, Become
  <1> QED
    BY <1>2, <1>3

LEMMA FailFounded ==
    ASSUME IInv, FoundedInv, NEW c \in Checkers, Fail(c)
    PROVE  FoundedInv'
  <1>1. /\ checks[c] \in Check /\ CheckInv(checks[c]) /\ Len(checks[c].stack) \in {1, 2}
        /\ Top(c) \in Frame /\ Top(c).at \in 1 .. Len(Stages(Top(c).entry))
        /\ Await(c) = StageAt(Top(c)) /\ Running(c)
    BY TopFrame DEF Fail
  <1>2. PICK i \in 1 .. Len(Errors(Top(c).tx, Await(c))) :
            /\ Applies(Top(c).tx, Await(c), i)
            /\ Become(c, Returns(checks[c],
                              StageError(Top(c).tx, Errors(Top(c).tx, Await(c))[i]), FALSE))
    BY DEF Fail
  <1>3. PICK e : e = Errors(Top(c).tx, Await(c))[i]
    OBVIOUS
  <1>4. e \in ErrorSet(Top(c).tx, StageAt(Top(c))) /\ e \in defects[Top(c).tx]
    BY <1>1, <1>2, <1>3 DEF ErrorSet, Applies
  <1>5. StageError(Top(c).tx, e) = e
    BY DEF StageError, SimulationError, BlockHashExists
  <1>6. e # "ok"
    BY <1>1, <1>4, <1>5, StageResult
  <1>7. PICK h : h = Returns(checks[c], e, FALSE)
    OBVIOUS
  <1>8. /\ h.tx = checks[c].tx
        /\ h.verifyPointer = checks[c].verifyPointer
        /\ h.returned = IF Len(checks[c].stack) = 1 THEN e ELSE "POINTER_FAILED_VERIFICATION"
    BY <1>1, <1>6, <1>7, ReturnsError
  <1>9. Founded(h)
    <2>1. CASE Len(checks[c].stack) = 1
      <3>1. Top(c) = checks[c].stack[1] /\ Top(c).tx = checks[c].tx
        BY <1>1, <2>1, TopOfPointer DEF Top
      <3>2. FirstOfStage(checks[c].tx, StageAt(Top(c)), e)
        BY <1>1, <1>2, <1>3, <3>1 DEF FirstOfStage, Applies
      <3>3. IsFirstError(checks[c].tx, checks[c].verifyPointer, e)
        BY <1>1, <2>1, <3>1, <3>2, OwnErrorIsFirst
      <3> QED
        BY <1>4, <1>8, <2>1, <3>1, <3>3 DEF Founded
    <2>2. CASE Len(checks[c].stack) # 1
      <3>1. ~IsPost(checks[c].tx) /\ ~Sound(Pointer[checks[c].tx])
        BY <1>1, <1>4, <2>2, TopOfPointer DEF Sound
      <3>2. IsFirstError(checks[c].tx, checks[c].verifyPointer, "POINTER_FAILED_VERIFICATION")
        BY <1>1, <2>2, <3>1, PointerErrorIsFirst
      <3> QED
        BY <1>8, <2>2, <3>1, <3>2 DEF Founded
    <2> QED
      BY <2>1, <2>2
  <1> QED
    BY <1>2, <1>3, <1>5, <1>7, <1>9, BecomeFounded DEF Become

LEMMA FailOnLostBlockFounded ==
    ASSUME IInv, FoundedInv, NEW c \in Checkers, FailOnLostBlock(c)
    PROVE  FoundedInv'
  <1>1. /\ checks[c] \in Check
        /\ Top(c) \in Frame /\ Top(c).at \in 1 .. Len(Stages(Top(c).entry))
        /\ Await(c) = StageAt(Top(c))
    BY TopFrame DEF FailOnLostBlock
  <1>2. PICK h : h = [checks[c] EXCEPT !.gone = TRUE]
    OBVIOUS
  <1>3. PICK e \in ErrorSet(Top(c).tx, Await(c)) :
            Become(c, Returns(h, StageError(Top(c).tx, e), FALSE))
    BY <1>2 DEF FailOnLostBlock
  <1>4. h \in Check /\ h.gone
    BY <1>1, <1>2 DEF Check
  <1>5. StageError(Top(c).tx, e) # "ok"
    BY <1>1, StageResult
  <1>6. PICK k : k = Returns(h, StageError(Top(c).tx, e), FALSE)
    OBVIOUS
  <1>7. k.gone
    BY <1>4, <1>5, <1>6, ReturnsError
  <1> QED
    BY <1>3, <1>6, <1>7, BecomeFounded DEF Become, Founded

LEMMA NoAnswerFounded ==
    ASSUME IInv, FoundedInv, NEW c \in Checkers, NoAnswer(c)
    PROVE  FoundedInv'
  <1>1. checks[c] \in Check /\ Len(checks[c].stack) \in {1, 2} /\ Running(c)
    BY TopFrame DEF NoAnswer
  <1>2. PICK h : h = [checks[c] EXCEPT !.unanswered = TRUE]
    OBVIOUS
  <1>3. PICK thrown \in BOOLEAN : thrown = (Await(c) = "owner")
    OBVIOUS
  <1>4. PICK e \in ThirdParty(Top(c).tx, Top(c).entry, Await(c)) :
            Become(c, Returns(h, e, thrown))
    BY <1>2, <1>3 DEF NoAnswer
  <1>5. h \in Check /\ h.unanswered /\ h.tx = checks[c].tx /\ h.stack = checks[c].stack
    BY <1>1, <1>2 DEF Check
  <1>6. e # "ok"
    BY ThirdPartyResult
  <1>7. ShouldRetry(e)
    BY DEF ThirdParty, SimulationUnanswered, DetailsUnanswered, BlocksUnanswered, Retriable,
           ShouldRetry
  <1>8. PICK k : k = Returns(h, e, thrown)
    OBVIOUS
  <1>9. /\ k.tx = checks[c].tx /\ k.unanswered
        /\ k.returned = IF Len(checks[c].stack) = 1 \/ thrown THEN e
                        ELSE "POINTER_FAILED_VERIFICATION"
    BY <1>5, <1>6, <1>8, ReturnsError
  <1>10. Founded(k)
    <2>1. CASE Len(checks[c].stack) = 1 \/ thrown
      BY <1>7, <1>9, <2>1 DEF Founded
    <2>2. CASE ~(Len(checks[c].stack) = 1 \/ thrown)
      BY <1>1, <1>9, <2>2, TopOfPointer DEF Founded
    <2> QED
      BY <2>1, <2>2
  <1> QED
    BY <1>4, <1>8, <1>10, BecomeFounded DEF Become

\* The check below the pointer's.
LEMMA PopStack ==
    ASSUME NEW s \in Seq(Frame), Len(s) = 2
    PROVE  Pop(s) \in Seq(Frame) /\ Pop(s) # <<>>
  <1>1. PICK f \in Frame : f = s[1]
    OBVIOUS
  <1>2. Pop(s) \in Seq(Frame) /\ Len(Pop(s)) = 1 /\ Pop(s)[1] = f
    BY <1>1 DEF Pop
  <1>3. Pop(s) = <<f>>
    BY <1>2
  <1> QED
    BY <1>2, <1>3

LEMMA SucceedFounded ==
    ASSUME IInv, FoundedInv, NEW c \in Checkers, Succeed(c)
    PROVE  FoundedInv'
  <1>1. /\ checks[c] \in Check /\ checks[c].stack # <<>> /\ checks[c].stack \in Seq(Frame)
        /\ Len(checks[c].stack) \in {1, 2}
    BY TopFrame DEF Succeed, Check
  <1>2. CASE ~Last(c)
    BY <1>1, <1>2, PassesFounded, BecomeFounded DEF Succeed, Become
  <1>3. CASE Last(c)
    <2>1. PICK k : k = Returns(checks[c], "ok", FALSE)
      OBVIOUS
    <2>2. CASE Len(checks[c].stack) = 1
      <3>1. k.returned = "ok"
        BY <1>1, <2>1, <2>2 DEF Returns, Check
      <3> QED
        BY <1>3, <2>1, <3>1, BecomeFounded DEF Succeed, Become, Founded
    <2>3. CASE Len(checks[c].stack) = 2
      <3>1. k.stack = Advance(Pop(checks[c].stack))
        BY <1>1, <2>1, <2>3 DEF Returns, Check
      <3>2. PICK s \in Seq(Frame) : s = checks[c].stack /\ Len(s) = 2
        BY <1>1, <2>3
      <3>3. PICK t \in Seq(Frame) : t = Pop(s) /\ t # <<>>
        BY <3>2, PopStack
      <3>4. PICK u \in Seq(Frame) : u = Advance(t) /\ Len(u) = Len(t)
        BY <3>3, AdvancedStack
      <3>5. u # <<>>
        BY <3>3, <3>4
      <3>6. k.stack # <<>>
        BY <3>1, <3>2, <3>3, <3>4, <3>5
      <3> QED
        BY <1>3, <2>1, <3>6, BecomeFounded DEF Succeed, Become, Founded
    <2> QED
      BY <1>1, <2>2, <2>3
  <1> QED
    BY <1>2, <1>3

LEMMA SucceedPointerFounded ==
    ASSUME IInv, FoundedInv, NEW c \in Checkers, SucceedPointer(c)
    PROVE  FoundedInv'
  <1>1. checks[c] \in Check /\ checks[c].stack # <<>> /\ checks[c].stack \in Seq(Frame)
    BY TopFrame DEF SucceedPointer, Check
  <1>2. CASE IsPost(Top(c).tx) \/ ~VerifyPointer(checks[c])
    BY <1>1, <1>2, PassesFounded, BecomeFounded DEF SucceedPointer, Become
  <1>3. CASE ~(IsPost(Top(c).tx) \/ ~VerifyPointer(checks[c]))
    <2>1. PICK f : f = [tx |-> Pointer[Top(c).tx], entry |-> "id", key |-> "ar", at |-> 1]
      OBVIOUS
    <2>2. PICK k : k = [checks[c] EXCEPT !.stack = Append(@, f),
                                         !.pointerRecord = record[Pointer[Top(c).tx]]]
      OBVIOUS
    <2>3. k.stack = Append(checks[c].stack, f) /\ Append(checks[c].stack, f) # <<>>
      BY <1>1, <2>2 DEF Check
    <2> QED
      BY <1>3, <2>1, <2>2, <2>3, BecomeFounded DEF SucceedPointer, Become, Founded
  <1> QED
    BY <1>2, <1>3

\* A check that begins, and one whose result is handed over.
LEMMA BoundaryFounded ==
    ASSUME IInv, FoundedInv, NEW c \in Checkers,
           Finish(c) \/ (\E t \in Publications, entry \in Entry, b, v \in BOOLEAN :
                             Start(c, t, entry, b, v))
    PROVE  FoundedInv'
  <1>1. CASE Finish(c)
    <2>1. Founded(Idle)
      BY DEF Founded, Idle
    <2> QED
      BY <1>1, <2>1, BecomeFounded DEF Finish
  <1>2. ASSUME NEW t \in Publications, NEW entry \in Entry, NEW b \in BOOLEAN, NEW v \in BOOLEAN,
               Start(c, t, entry, b, v)
        PROVE  FoundedInv'
    <2>1. PICK f : f = [tx |-> t, entry |-> entry, key |-> "plain", at |-> First(b)]
      OBVIOUS
    <2>2. PICK k : k = [Idle EXCEPT !.tx = t, !.stack = <<f>>, !.verifyPointer = v,
                                    !.saves = entry = "metadata"]
      OBVIOUS
    <2>3. k.stack = <<f>> /\ <<f>> # <<>>
      BY <2>2 DEF Idle
    <2> QED
      BY <1>2, <2>1, <2>2, <2>3, BecomeFounded DEF Start, Become, Founded
  <1> QED
    BY <1>1, <1>2

\* Whatever a check returns is founded.
LEMMA ErrorsFounded == Spec => []FoundedInv
  <1>1. Init => FoundedInv
    BY DEF Init, FoundedInv, Founded, Idle
  <1>2. IInv /\ FoundedInv /\ [Next]_vars => FoundedInv'
    <2> SUFFICES ASSUME IInv, FoundedInv, [Next]_vars PROVE FoundedInv'
      OBVIOUS
    <2>1. ASSUME UNCHANGED <<checks, defects>> PROVE FoundedInv'
      <3>1. ASSUME NEW d \in Checkers PROVE Founded(checks[d])'
        <4>1. PICK m : m = checks'[d] /\ Founded(m)
          BY <2>1 DEF FoundedInv
        <4> QED
          BY <2>1, <4>1, FoundedCarries
      <3> QED
        BY <3>1 DEF FoundedInv
    <2>2. ASSUME NEW c \in Checkers, CheckStep(c) PROVE FoundedInv'
      BY <2>2, ReadCacheFounded, FailFounded, FailOnLostBlockFounded, NoAnswerFounded,
         SucceedFounded, SucceedPointerFounded, BoundaryFounded DEF CheckStep
    <2> QED
      BY <2>1, <2>2, BoundaryFounded DEF Next, Reorg, vars
  <1> QED
    BY <1>1, <1>2, CheckerInvariant, PTL DEF Spec

\* A final error blames the publication, or its pointer, for something that is wrong with it,
\* for all publications, errors, pointers and numbers of concurrent checks.
THEOREM RejectionsFounded == Spec => []RejectionIsFounded
  <1>1. FoundedInv => RejectionIsFounded
    BY DEF FoundedInv, Founded, RejectionIsFounded, Ended, Running
  <1> QED
    BY <1>1, ErrorsFounded, PTL

\* The first error is what is returned, whatever the publications, their errors and pointers
\* are and however many checks run: the lookups of one entry make no difference.
THEOREM FirstErrorReturned == Spec => []FirstErrorIsReturned
  <1>1. FoundedInv => FirstErrorIsReturned
    BY DEF FoundedInv, Founded, FirstErrorIsReturned, Undisturbed, Ended, Running
  <1> QED
    BY <1>1, ErrorsFounded, PTL

\* There is one first error at most.
LEMMA FirstErrorUnique ==
    ASSUME NEW t, NEW verify, NEW r, NEW s,
           IsFirstError(t, verify, r), IsFirstError(t, verify, s)
    PROVE  r = s
  <1>1. ASSUME NEW i \in 1 .. 13, NEW x,
               FirstOfStage(t, Stages("id")[i], x)
        PROVE  ~Clean(t, Stages("id")[i])
    BY <1>1 DEF FirstOfStage, Clean, ErrorSet
  <1>2. ASSUME NEW stage, NEW x, NEW y, FirstOfStage(t, stage, x), FirstOfStage(t, stage, y)
        PROVE  x = y
    <2>1. PICK i \in 1 .. Len(Errors(t, stage)) :
              /\ x = Errors(t, stage)[i] /\ x \in defects[t]
              /\ \A j \in 1 .. i - 1 : Errors(t, stage)[j] \notin defects[t]
      BY <1>2 DEF FirstOfStage
    <2>2. PICK k \in 1 .. Len(Errors(t, stage)) :
              /\ y = Errors(t, stage)[k] /\ y \in defects[t]
              /\ \A j \in 1 .. k - 1 : Errors(t, stage)[j] \notin defects[t]
      BY <1>2 DEF FirstOfStage
    <2>3. i \in Nat /\ k \in Nat /\ 1 <= i /\ 1 <= k
      OBVIOUS
    <2>4. ~(i < k) /\ ~(k < i)
      <3>1. i < k => i \in 1 .. k - 1
        BY <2>3
      <3>2. k < i => k \in 1 .. i - 1
        BY <2>3
      <3> QED
        BY <2>1, <2>2, <3>1, <3>2
    <2> QED
      BY <2>1, <2>2, <2>3, <2>4
  <1> DEFINE Before(i) == /\ \A j \in 1 .. i - 1 : Clean(t, Stages("id")[j])
                          /\ (\E j \in 1 .. i - 1 : Stages("id")[j] = "pointer") =>
                                PointerHolds(t, verify)
             At(i, x) == \/ FirstOfStage(t, Stages("id")[i], x)
                         \/ /\ Stages("id")[i] = "pointer" /\ Clean(t, Stages("id")[i])
                            /\ ~PointerHolds(t, verify) /\ x = "POINTER_FAILED_VERIFICATION"
  <1>3. PICK i \in 1 .. 13 : Before(i) /\ At(i, r)
    BY StageLists DEF IsFirstError
  <1>4. PICK k \in 1 .. 13 : Before(k) /\ At(k, s)
    BY StageLists DEF IsFirstError
  <1>5. ASSUME NEW m \in 1 .. 13, NEW n \in 1 .. 13, NEW x, At(m, x), Before(n), m < n
        PROVE  FALSE
    <2>1. m \in 1 .. n - 1
      BY <1>5
    <2> QED
      BY <1>1, <1>5, <2>1
  <1>6. i = k
    BY <1>3, <1>4, <1>5
  <1> QED
    BY <1>1, <1>2, <1>3, <1>4, <1>6

\* With an error a publication or its pointer is not sound.
LEMMA FirstErrorBlames ==
    ASSUME NEW t, NEW verify, NEW r, IsFirstError(t, verify, r)
    PROVE  ~(Sound(t) /\ PointerHolds(t, verify))
  BY DEF IsFirstError, FirstOfStage, Sound

\* Two checks of one publication that nobody disturbs agree: what is accepted or rejected, and
\* with which error, depends neither on the entry, nor on whether the record was looked up,
\* nor on the checks beside it (da-proof-checker.ts:86-189).
UndisturbedChecksAgree ==
    \A c, d \in Checkers :
        /\ Ended(c) /\ Undisturbed(checks[c]) /\ Ended(d) /\ Undisturbed(checks[d])
        /\ checks[c].tx = checks[d].tx /\ checks[c].verifyPointer = checks[d].verifyPointer
        => checks[c].returned = checks[d].returned

THEOREM ChecksAgree == Spec => []UndisturbedChecksAgree
  <1>1. IInv /\ FoundedInv => UndisturbedChecksAgree
    <2> SUFFICES ASSUME IInv, FoundedInv, NEW c \in Checkers, NEW d \in Checkers,
                        Ended(c), Undisturbed(checks[c]), Ended(d), Undisturbed(checks[d]),
                        checks[c].tx = checks[d].tx,
                        checks[c].verifyPointer = checks[d].verifyPointer
                 PROVE  checks[c].returned = checks[d].returned
      BY DEF UndisturbedChecksAgree
    <2> DEFINE t == checks[c].tx
               v == checks[c].verifyPointer
    <2>1. ASSUME NEW e \in {c, d}
          PROVE  /\ checks[e].returned = "ok" => Sound(t) /\ PointerHolds(t, v)
                 /\ checks[e].returned # "ok" => IsFirstError(t, v, checks[e].returned)
      <3>1. CheckInv(checks[e]) /\ Founded(checks[e]) /\ Ended(e) /\ Undisturbed(checks[e])
            /\ checks[e].tx = t /\ checks[e].verifyPointer = v
        BY <2>1 DEF IInv, FoundedInv
      <3> QED
        BY <3>1 DEF CheckInv, EndedInv, Founded, Ended, Running, Undisturbed, PointerHolds,
                    SoundWithPointer
    <2>2. CASE checks[c].returned = "ok" /\ checks[d].returned = "ok"
      BY <2>2
    <2>3. CASE checks[c].returned # "ok" /\ checks[d].returned # "ok"
      BY <2>1, <2>3, FirstErrorUnique
    <2>4. CASE ~(checks[c].returned = "ok" <=> checks[d].returned = "ok")
      BY <2>1, <2>4, FirstErrorBlames
    <2> QED
      BY <2>2, <2>3, <2>4
  <1> QED
    BY <1>1, CheckerInvariant, ErrorsFounded, PTL

-------------------------------------------------------------------------------
(* Progress *)

\* What remains of a check that has not ended.
LEMMA RemainingRange ==
    ASSUME NEW f \in Frame, FrameInv(f)
    PROVE  /\ Remaining(f) \in 1 .. 13
           /\ ~AtLast(f) => Remaining(f) - 1 \in 1 .. 13
           /\ \A g : g = [f EXCEPT !.at = @ + 1] => Remaining(g) = Remaining(f) - 1
  <1>1. PICK n \in {11, 13} : n = Len(Stages(f.entry))
    BY StageLists DEF Frame, Entry
  <1>2. f.at \in 1 .. n
    BY <1>1 DEF FrameInv
  <1>3. Remaining(f) = n - f.at + 1
    BY <1>1 DEF Remaining
  <1>4. ~AtLast(f) => f.at # n
    BY <1>1 DEF AtLast
  <1>5. ASSUME NEW g, g = [f EXCEPT !.at = @ + 1] PROVE Remaining(g) = Remaining(f) - 1
    <2>1. g.entry = f.entry /\ g.at = f.at + 1
      BY <1>5 DEF Frame
    <2> QED
      BY <1>1, <1>2, <2>1 DEF Remaining
  <1> QED
    BY <1>2, <1>3, <1>4, <1>5

\* The rank of a check with none, one and two publications under way.
LEMMA RankOfStack ==
    ASSUME NEW k, k.stack \in Seq(Frame), Len(k.stack) \in 0 .. 2
    PROVE  /\ k.stack = <<>> => Rank(k) = IF k.tx = NoPointer THEN 0 ELSE 1
           /\ Len(k.stack) = 1 => Rank(k) = 1 + 14 * Remaining(k.stack[1])
           /\ Len(k.stack) = 2 =>
                 Rank(k) = 1 + 14 * (Remaining(k.stack[1]) - 1) + Remaining(k.stack[2])
  <1>1. MostRemaining + 1 = 14
    <2>1. MostRemaining = 13
      BY StageLists DEF MostRemaining
    <2> QED
      BY <2>1
  <1>2. k.stack = <<>> <=> Len(k.stack) = 0
    OBVIOUS
  <1> QED
    BY <1>1, <1>2 DEF Rank

\* The frames of a check under way.
LEMMA FramesOfCheck ==
    ASSUME NEW k, CheckInv(k), k.stack # <<>>
    PROVE  /\ k.stack \in Seq(Frame) /\ Len(k.stack) \in {1, 2} /\ k.tx # NoPointer
           /\ k.stack[1] \in Frame /\ FrameInv(k.stack[1])
           /\ Len(k.stack) = 2 => k.stack[2] \in Frame /\ FrameInv(k.stack[2])
  <1>1. k.stack \in Seq(Frame) /\ Len(k.stack) \in {1, 2}
    BY DEF CheckInv, Check
  <1>2. k.tx # NoPointer
    BY PointerAssumption DEF CheckInv, BottomInv
  <1> QED
    BY <1>1, <1>2 DEF CheckInv

\* A check that returns has less before it.
LEMMA ReturnsProgress ==
    ASSUME NEW k, CheckInv(k), k.stack # <<>>, NEW r, NEW thrown \in BOOLEAN,
           NEW h, h = Returns(k, r, thrown)
    PROVE  Rank(h) < Rank(k)
  <1>1. /\ k \in Check /\ k.stack \in Seq(Frame) /\ Len(k.stack) \in {1, 2}
        /\ k.tx # NoPointer
        /\ k.stack[1] \in Frame /\ FrameInv(k.stack[1])
        /\ Len(k.stack) = 2 => k.stack[2] \in Frame /\ FrameInv(k.stack[2])
    BY FramesOfCheck DEF CheckInv
  <1>2. Remaining(k.stack[1]) \in 1 .. 13
    BY <1>1, RemainingRange
  <1>3. Len(k.stack) = 2 => Remaining(k.stack[2]) \in 1 .. 13
    BY <1>1, RemainingRange
  <1>4. /\ Len(k.stack) = 1 => Rank(k) = 1 + 14 * Remaining(k.stack[1])
        /\ Len(k.stack) = 2 =>
              Rank(k) = 1 + 14 * (Remaining(k.stack[1]) - 1) + Remaining(k.stack[2])
    BY <1>1, RankOfStack
  <1>5. CASE Len(k.stack) = 1 \/ r # "ok"
    <2>1. h.stack = <<>> /\ h.tx = k.tx
      BY <1>1, <1>5 DEF Returns, Check
    <2>2. Rank(h) = 1
      BY <1>1, <2>1 DEF Rank
    <2>3. PICK m \in 1 .. 13 : m = Remaining(k.stack[1])
      BY <1>2
    <2>4. CASE Len(k.stack) = 1
      BY <1>4, <2>2, <2>3, <2>4
    <2>5. CASE Len(k.stack) = 2
      <3>1. PICK n \in 1 .. 13 : n = Remaining(k.stack[2])
        BY <1>3, <2>5
      <3>2. Rank(k) = 1 + 14 * (m - 1) + n
        BY <1>4, <2>3, <2>5, <3>1
      <3> QED
        BY <2>2, <3>2
    <2> QED
      BY <1>1, <2>4, <2>5
  <1>6. CASE Len(k.stack) = 2 /\ r = "ok"
    <2>1. PICK f \in Frame : f = k.stack[1]
      BY <1>1
    <2>2. PICK g : g = [f EXCEPT !.at = @ + 1]
      OBVIOUS
    <2>3. h.stack = Advance(Pop(k.stack))
      BY <1>1, <1>6 DEF Returns, Check
    <2>4. Pop(k.stack) = <<f>>
      <3>1. Pop(k.stack) \in Seq(Frame) /\ Len(Pop(k.stack)) = 1 /\ Pop(k.stack)[1] = f
        BY <1>1, <1>6, <2>1 DEF Pop
      <3> QED
        BY <3>1
    <2>5. Advance(<<f>>) = <<g>>
      BY <2>2 DEF Advance
    <2>6. h.stack \in Seq(Frame) /\ Len(h.stack) = 1 /\ h.stack[1] = g
      <3>1. g \in Frame
        BY <1>1, <2>1, <2>2, <1>6 DEF Frame
      <3>2. h.stack = <<g>>
        BY <2>3, <2>4, <2>5, Zenon
      <3> QED
        BY <3>1, <3>2
    <2>7. Remaining(g) = Remaining(f) - 1
      BY <1>1, <2>1, <2>2, RemainingRange
    <2>8. Rank(h) = 1 + 14 * Remaining(g)
      BY <2>6, RankOfStack
    <2>9. PICK m \in 1 .. 13, n \in 1 .. 13 :
              m = Remaining(k.stack[1]) /\ n = Remaining(k.stack[2])
      BY <1>2, <1>3, <1>6
    <2>10. Rank(k) = 1 + 14 * (m - 1) + n /\ Rank(h) = 1 + 14 * (m - 1)
      BY <1>4, <1>6, <2>1, <2>7, <2>8, <2>9
    <2> QED
      BY <2>10
  <1> QED
    BY <1>1, <1>5, <1>6

\* So has one that passes a stage.
LEMMA PassesProgress ==
    ASSUME NEW k, CheckInv(k), k.stack # <<>>, NEW h, h = Passes(k)
    PROVE  Rank(h) < Rank(k)
  <1>1. /\ k \in Check /\ k.stack \in Seq(Frame) /\ Len(k.stack) \in {1, 2}
        /\ k.stack[1] \in Frame /\ FrameInv(k.stack[1])
        /\ Len(k.stack) = 2 => k.stack[2] \in Frame /\ FrameInv(k.stack[2])
    BY FramesOfCheck DEF CheckInv
  <1>2. h.stack = Advance(k.stack)
    BY <1>1 DEF Passes, Check
  <1>3. /\ h.stack \in Seq(Frame) /\ Len(h.stack) = Len(k.stack)
        /\ \A i \in 1 .. Len(k.stack) - 1 : h.stack[i] = k.stack[i]
        /\ h.stack[Len(k.stack)] = [k.stack[Len(k.stack)] EXCEPT !.at = @ + 1]
    BY <1>1, <1>2, AdvancedStack
  <1>4. CASE Len(k.stack) = 1
    <2>1. Remaining(h.stack[1]) = Remaining(k.stack[1]) - 1 /\ Remaining(k.stack[1]) \in 1 .. 13
      BY <1>1, <1>3, <1>4, RemainingRange
    <2>2. Rank(h) = 1 + 14 * Remaining(h.stack[1]) /\ Rank(k) = 1 + 14 * Remaining(k.stack[1])
      BY <1>1, <1>3, <1>4, RankOfStack
    <2> QED
      BY <2>1, <2>2
  <1>5. CASE Len(k.stack) = 2
    <2>1. Remaining(h.stack[2]) = Remaining(k.stack[2]) - 1 /\ Remaining(k.stack[2]) \in 1 .. 13
      BY <1>1, <1>3, <1>5, RemainingRange
    <2>2. h.stack[1] = k.stack[1] /\ Remaining(k.stack[1]) \in 1 .. 13
      BY <1>1, <1>3, <1>5, RemainingRange
    <2>3. /\ Rank(h) = 1 + 14 * (Remaining(h.stack[1]) - 1) + Remaining(h.stack[2])
          /\ Rank(k) = 1 + 14 * (Remaining(k.stack[1]) - 1) + Remaining(k.stack[2])
      BY <1>1, <1>3, <1>5, RankOfStack
    <2>4. PICK m \in 1 .. 13, n \in 1 .. 13 :
              m = Remaining(k.stack[1]) /\ n = Remaining(k.stack[2])
      BY <2>1, <2>2
    <2>5. Rank(k) = 1 + 14 * (m - 1) + n /\ Rank(h) = 1 + 14 * (m - 1) + (n - 1)
      BY <2>1, <2>2, <2>3, <2>4
    <2> QED
      BY <2>5
  <1> QED
    BY <1>1, <1>4, <1>5

\* The history of a check has no part in its rank.
LEMMA RankOfHistory ==
    ASSUME NEW k, NEW h, h.stack = k.stack, h.tx = k.tx
    PROVE  Rank(h) = Rank(k)
  BY DEF Rank

\* Every step of a checker is progress: of that checker, and none leaves it where it was.
LEMMA StepProgress ==
    ASSUME IInv, NEW c \in Checkers, CheckStep(c)
    PROVE  Rank(checks'[c]) < Rank(checks[c])
  <1>1. checks \in [Checkers -> Check]
    BY DEF IInv, TypeOK
  <1>2. ASSUME NEW k, Become(c, k) PROVE checks'[c] = k
    BY <1>1, <1>2 DEF Become
  <1>3. ASSUME Running(c)
        PROVE  CheckInv(checks[c]) /\ checks[c].stack # <<>> /\ checks[c] \in Check
    BY <1>3, TopFrame
  <1>4. ASSUME NEW h \in Check, h.tx = checks[c].tx, h.stack = checks[c].stack,
               h.verifyPointer = checks[c].verifyPointer, h.returned = checks[c].returned,
               h.saves = checks[c].saves, Running(c), NEW r, NEW thrown \in BOOLEAN,
               Become(c, Returns(h, r, thrown))
        PROVE  Rank(checks'[c]) < Rank(checks[c])
    <2>1. CheckInv(h) /\ h.stack # <<>>
      BY <1>3, <1>4, HistoryInv
    <2>2. Rank(Returns(h, r, thrown)) < Rank(h)
      BY <2>1, ReturnsProgress
    <2> QED
      BY <1>2, <1>4, <2>2, RankOfHistory
  <1>5. ASSUME Running(c), Become(c, Passes(checks[c]))
        PROVE  Rank(checks'[c]) < Rank(checks[c])
    BY <1>2, <1>3, <1>5, PassesProgress
  <1>6. CASE ReadCache(c)
    <2>1. PICK h : h = [checks[c] EXCEPT !.cached = TRUE]
      OBVIOUS
    <2>2. Running(c) /\ h \in Check /\ h.tx = checks[c].tx /\ h.stack = checks[c].stack
          /\ h.verifyPointer = checks[c].verifyPointer /\ h.returned = checks[c].returned
          /\ h.saves = checks[c].saves
      BY <1>3, <1>6, <2>1 DEF Check, ReadCache
    <2> QED
      BY <1>4, <1>5, <1>6, <2>1, <2>2 DEF ReadCache
  <1>7. CASE Fail(c)
    BY <1>3, <1>4, <1>7 DEF Fail
  <1>8. CASE FailOnLostBlock(c)
    <2>1. PICK h : h = [checks[c] EXCEPT !.gone = TRUE]
      OBVIOUS
    <2>2. Running(c) /\ h \in Check /\ h.tx = checks[c].tx /\ h.stack = checks[c].stack
          /\ h.verifyPointer = checks[c].verifyPointer /\ h.returned = checks[c].returned
          /\ h.saves = checks[c].saves
      BY <1>3, <1>8, <2>1 DEF Check, FailOnLostBlock
    <2> QED
      BY <1>4, <1>8, <2>1, <2>2 DEF FailOnLostBlock
  <1>9. CASE NoAnswer(c)
    <2>1. PICK h : h = [checks[c] EXCEPT !.unanswered = TRUE]
      OBVIOUS
    <2>2. Running(c) /\ h \in Check /\ h.tx = checks[c].tx /\ h.stack = checks[c].stack
          /\ h.verifyPointer = checks[c].verifyPointer /\ h.returned = checks[c].returned
          /\ h.saves = checks[c].saves
      BY <1>3, <1>9, <2>1 DEF Check, NoAnswer
    <2>3. PICK thrown \in BOOLEAN : thrown = (Await(c) = "owner")
      OBVIOUS
    <2> QED
      BY <1>4, <1>9, <2>1, <2>2, <2>3 DEF NoAnswer
  <1>10. CASE Succeed(c)
    BY <1>3, <1>4, <1>5, <1>10 DEF Succeed
  <1>11. CASE SucceedPointer(c)
    <2>1. Running(c) /\ CheckInv(checks[c]) /\ checks[c] \in Check
      BY <1>3, <1>11 DEF SucceedPointer
    <2>2. CASE IsPost(Top(c).tx) \/ ~VerifyPointer(checks[c])
      BY <1>5, <1>11, <2>1, <2>2 DEF SucceedPointer
    <2>3. CASE ~IsPost(Top(c).tx) /\ VerifyPointer(checks[c])
      <3>1. /\ checks[c].stack \in Seq(Frame) /\ Len(checks[c].stack) = 1
            /\ checks[c].stack[1] \in Frame /\ FrameInv(checks[c].stack[1])
            /\ Top(c) = checks[c].stack[1]
        BY <1>3, <2>1, <2>3, FramesOfCheck DEF VerifyPointer, Top
      <3>2. PICK g : g = [tx |-> Pointer[Top(c).tx], entry |-> "id", key |-> "ar", at |-> 1]
        OBVIOUS
      <3>3. g \in Frame /\ Remaining(g) = 13
        <4>1. Top(c).tx \in Publications
          BY <3>1 DEF Frame
        <4> QED
          BY <2>3, <3>2, <4>1, PointerAssumption, StageLists
             DEF Frame, Entry, IsPost, Remaining
      <3>4. PICK h : h = [checks[c] EXCEPT !.stack = Append(@, g),
                                           !.pointerRecord = record[Pointer[Top(c).tx]]]
        OBVIOUS
      <3>5. checks'[c] = h
        BY <1>2, <1>11, <2>3, <3>2, <3>4 DEF SucceedPointer
      <3>6. h.stack \in Seq(Frame) /\ Len(h.stack) = 2
            /\ h.stack[1] = checks[c].stack[1] /\ h.stack[2] = g
        <4>1. h.stack = Append(checks[c].stack, g)
          BY <2>1, <3>4 DEF Check
        <4> QED
          BY <3>1, <3>3, <4>1
      <3>7. Rank(h) = 1 + 14 * (Remaining(checks[c].stack[1]) - 1) + 13
        BY <3>3, <3>6, RankOfStack
      <3>8. Rank(checks[c]) = 1 + 14 * Remaining(checks[c].stack[1])
        BY <3>1, RankOfStack
      <3>9. Remaining(checks[c].stack[1]) \in 1 .. 13
        BY <3>1, RemainingRange
      <3> QED
        BY <3>5, <3>7, <3>8, <3>9
    <2> QED
      BY <2>2, <2>3
  <1>12. CASE Finish(c)
    <2>1. checks'[c] = Idle /\ checks[c].tx # NoPointer /\ checks[c].stack = <<>>
      BY <1>1, <1>12 DEF Finish, Ended, Running
    <2>2. Rank(Idle) = 0 /\ Rank(checks[c]) = 1
      BY <2>1 DEF Rank, Idle
    <2> QED
      BY <2>1, <2>2
  <1> QED
    BY <1>6, <1>7, <1>8, <1>9, <1>10, <1>11, <1>12 DEF CheckStep

\* A step of one checker leaves the others' checks alone.
LEMMA OtherChecks ==
    ASSUME IInv, NEW c \in Checkers, NEW d \in Checkers, d # c, CheckStep(d)
    PROVE  checks'[c] = checks[c]
  <1>1. checks \in [Checkers -> Check]
    BY DEF IInv, TypeOK
  <1>2. ASSUME NEW k, Become(d, k) PROVE checks'[c] = checks[c]
    BY <1>1, <1>2 DEF Become
  <1>3. Finish(d) => checks'[c] = checks[c]
    BY <1>1 DEF Finish
  <1> QED
    BY <1>2, <1>3 DEF CheckStep, ReadCache, Fail, FailOnLostBlock, NoAnswer, Succeed,
                      SucceedPointer

\* A check ends after a number of steps that its entry bounds, for any publications, errors
\* and pointers, and however many checks run beside it.
THEOREM ChecksProgress == Spec => EveryStepIsProgress
  <1>1. IInv /\ [Next]_vars =>
            [\A c \in Checkers :
                checks[c] # Idle /\ checks'[c] # checks[c] =>
                    Rank(checks'[c]) < Rank(checks[c])]_vars
    <2> SUFFICES ASSUME IInv, Next, NEW c \in Checkers, checks[c] # Idle,
                        checks'[c] # checks[c]
                 PROVE  Rank(checks'[c]) < Rank(checks[c])
      OBVIOUS
    <2>1. checks \in [Checkers -> Check]
      BY DEF IInv, TypeOK
    <2>2. CASE \E d \in Checkers : CheckStep(d)
      BY <2>2, StepProgress, OtherChecks
    <2>3. ASSUME NEW d \in Checkers, NEW t \in Publications, NEW entry \in Entry,
                 NEW b \in BOOLEAN, NEW v \in BOOLEAN, Start(d, t, entry, b, v)
          PROVE  FALSE
      BY <2>1, <2>3 DEF Start, Become
    <2>4. CASE \E t \in Publications : Reorg(t)
      BY <2>4 DEF Reorg
    <2> QED
      BY <2>2, <2>3, <2>4 DEF Next
  <1> QED
    BY <1>1, CheckerInvariant, PTL DEF Spec, EveryStepIsProgress

-------------------------------------------------------------------------------
(* An error that is never returned *)

\* The error that README.md:125 announces for a block that left the chain is neither returned
\* by a check nor saved: verifySimulation asks whether the block exists and takes any answer
\* for yes (ethereum.ts:71-98, da-post-verifier-v1.ts:96-107).
NoPotentialReorg ==
    /\ \A c \in Checkers : checks[c].returned # "POTENTIAL_REORG"
    /\ \A t \in Publications : record[t] # "POTENTIAL_REORG"

\* No stage returns it.
LEMMA StagesNeverReorg ==
    ASSUME NEW t, NEW stage, NEW e \in ErrorSet(t, stage)
    PROVE  StageError(t, e) # "POTENTIAL_REORG"
  <1>1. \A i \in 1 .. Len(Errors(t, stage)) : Errors(t, stage)[i] # "POTENTIAL_REORG"
    BY DEF Errors, PublicationIdErrors, PostPointerErrors, PointerErrors, SimulationErrors,
           SignerErrors
  <1>2. e # "POTENTIAL_REORG"
    BY <1>1 DEF ErrorSet
  <1> QED
    BY <1>2 DEF StageError, SimulationError, BlockHashExists

\* A check returns what a stage, a record or a pointer returned.
LEMMA ReturnsWhatItGot ==
    ASSUME NEW k \in Check, k.returned # "POTENTIAL_REORG",
           NEW r, r # "POTENTIAL_REORG", NEW thrown \in BOOLEAN
    PROVE  Returns(k, r, thrown).returned # "POTENTIAL_REORG"
  BY DEF Returns, Check

\* One check is replaced by another.
LEMMA BecomeNeverReorg ==
    ASSUME IInv, NoPotentialReorg, NEW c \in Checkers, NEW k, Become(c, k),
           k.returned # "POTENTIAL_REORG"
    PROVE  NoPotentialReorg'
  BY DEF IInv, TypeOK, NoPotentialReorg, Become

\* The error of README.md:125 is never returned, whatever leaves the chain and whenever: not
\* only in the run that shows one check without it.
THEOREM PotentialReorgIsNeverReturned == Spec => []NoPotentialReorg
  <1>1. Init => NoPotentialReorg
    BY DEF Init, NoPotentialReorg, Idle
  <1>2. IInv /\ NoPotentialReorg /\ [Next]_vars => NoPotentialReorg'
    <2> SUFFICES ASSUME IInv, NoPotentialReorg, [Next]_vars PROVE NoPotentialReorg'
      OBVIOUS
    <2>1. \A c \in Checkers : checks[c].returned # "POTENTIAL_REORG" /\ checks[c] \in Check
      BY DEF IInv, TypeOK, NoPotentialReorg
    <2>2. ASSUME NEW c \in Checkers, Become(c, Passes(checks[c])) PROVE NoPotentialReorg'
      <3>1. Passes(checks[c]).returned # "POTENTIAL_REORG"
        BY <2>1 DEF Passes, Check
      <3> QED
        BY <2>2, <3>1, BecomeNeverReorg
    <2>3. ASSUME NEW c \in Checkers, NEW h \in Check, h.returned = checks[c].returned,
                 NEW r, r # "POTENTIAL_REORG", NEW thrown \in BOOLEAN,
                 Become(c, Returns(h, r, thrown))
          PROVE  NoPotentialReorg'
      BY <2>1, <2>3, ReturnsWhatItGot, BecomeNeverReorg
    <2>4. ASSUME NEW c \in Checkers, ReadCache(c) PROVE NoPotentialReorg'
      <3>1. CASE Recorded(Top(c))
        <4>1. Top(c).tx \in Publications
          BY <2>4, TopFrame DEF ReadCache, Frame
        <4>2. PICK h : h = [checks[c] EXCEPT !.cached = TRUE]
          OBVIOUS
        <4>3. h \in Check /\ h.returned = checks[c].returned
          BY <2>1, <4>2 DEF Check
        <4> QED
          BY <2>3, <2>4, <3>1, <4>1, <4>2, <4>3 DEF ReadCache, NoPotentialReorg
      <3> QED
        BY <2>2, <2>4, <3>1 DEF ReadCache
    <2>5. ASSUME NEW c \in Checkers, Fail(c) PROVE NoPotentialReorg'
      <3>1. PICK i \in 1 .. Len(Errors(Top(c).tx, Await(c))) :
                Become(c, Returns(checks[c],
                                  StageError(Top(c).tx, Errors(Top(c).tx, Await(c))[i]), FALSE))
        BY <2>5 DEF Fail
      <3>2. Errors(Top(c).tx, Await(c))[i] \in ErrorSet(Top(c).tx, Await(c))
        BY DEF ErrorSet
      <3> QED
        BY <2>1, <2>3, <3>1, <3>2, StagesNeverReorg
    <2>6. ASSUME NEW c \in Checkers, FailOnLostBlock(c) PROVE NoPotentialReorg'
      <3>1. PICK h : h = [checks[c] EXCEPT !.gone = TRUE]
        OBVIOUS
      <3>2. h \in Check /\ h.returned = checks[c].returned
        BY <2>1, <3>1 DEF Check
      <3> QED
        BY <2>3, <2>6, <3>1, <3>2, StagesNeverReorg DEF FailOnLostBlock
    <2>7. ASSUME NEW c \in Checkers, NoAnswer(c) PROVE NoPotentialReorg'
      <3>1. PICK h : h = [checks[c] EXCEPT !.unanswered = TRUE]
        OBVIOUS
      <3>2. h \in Check /\ h.returned = checks[c].returned
        BY <2>1, <3>1 DEF Check
      <3>3. PICK thrown \in BOOLEAN : thrown = (Await(c) = "owner")
        OBVIOUS
      <3>4. \A e \in ThirdParty(Top(c).tx, Top(c).entry, Await(c)) : e # "POTENTIAL_REORG"
        BY DEF ThirdParty, SimulationUnanswered, DetailsUnanswered, BlocksUnanswered
      <3> QED
        BY <2>3, <2>7, <3>1, <3>2, <3>3, <3>4 DEF NoAnswer
    <2>8. ASSUME NEW c \in Checkers, Succeed(c) PROVE NoPotentialReorg'
      BY <2>1, <2>2, <2>3, <2>8 DEF Succeed
    <2>9. ASSUME NEW c \in Checkers, SucceedPointer(c) PROVE NoPotentialReorg'
      <3>1. CASE IsPost(Top(c).tx) \/ ~VerifyPointer(checks[c])
        BY <2>2, <2>9, <3>1 DEF SucceedPointer
      <3>2. CASE ~(IsPost(Top(c).tx) \/ ~VerifyPointer(checks[c]))
        <4>1. PICK f : f = [tx |-> Pointer[Top(c).tx], entry |-> "id", key |-> "ar", at |-> 1]
          OBVIOUS
        <4>2. PICK h : h = [checks[c] EXCEPT !.stack = Append(@, f),
                                             !.pointerRecord = record[Pointer[Top(c).tx]]]
          OBVIOUS
        <4>3. h.returned # "POTENTIAL_REORG"
          BY <2>1, <4>2 DEF Check
        <4> QED
          BY <2>9, <3>2, <4>1, <4>2, <4>3, BecomeNeverReorg DEF SucceedPointer
      <3> QED
        BY <3>1, <3>2
    <2>10. ASSUME NEW c \in Checkers, Finish(c) PROVE NoPotentialReorg'
      <3>1. \A d \in Checkers : checks'[d] = Idle \/ checks'[d] = checks[d]
        BY <2>10 DEF Finish, IInv, TypeOK
      <3>2. \A t \in Publications :
                record'[t] = record[t] \/ record'[t] = checks[c].returned
        BY <2>10 DEF Finish, IInv, TypeOK
      <3> QED
        BY <2>1, <3>1, <3>2 DEF NoPotentialReorg, Idle
    <2>11. ASSUME NEW c \in Checkers, NEW t \in Publications, NEW entry \in Entry,
                  NEW b \in BOOLEAN, NEW v \in BOOLEAN, Start(c, t, entry, b, v)
           PROVE  NoPotentialReorg'
      BY <2>11, BecomeNeverReorg DEF Start, Idle
    <2>12. ASSUME UNCHANGED <<checks, record>> PROVE NoPotentialReorg'
      BY <2>12 DEF NoPotentialReorg
    <2> QED
      BY <2>4, <2>5, <2>6, <2>7, <2>8, <2>9, <2>10, <2>11, <2>12
         DEF Next, CheckStep, Reorg, vars
  <1> QED
    BY <1>1, <1>2, CheckerInvariant, PTL DEF Spec

===============================================================================
