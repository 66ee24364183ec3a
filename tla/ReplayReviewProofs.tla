-------------------------- MODULE ReplayReviewProofs --------------------------
(***************************************************************************)
(* Proofs about the review of replays, for any dead letters, items, API    *)
(* threads and number of faults.                                           *)
(***************************************************************************)
EXTENDS ReplayReviewProps, TLAPS

\* The initial state satisfies the invariant.
LEMMA InvInit == Init => IInv
<1> SUFFICES ASSUME Init PROVE IInv
  OBVIOUS
<1> USE ReplayReviewAssumption DEF Init
<1>1. TypeOK
  BY DEF TypeOK, Status, Verdict, At
<1>2. RequestsRemember /\ ItemsAgree /\ ReplayNeedsApproval /\ ReplaysOnce
  BY DEF RequestsRemember, ItemsAgree, ReplayNeedsApproval, ReplaysOnce
<1>3. OneHolder /\ OneSubmit
  BY DEF OneHolder, OneSubmit, Holds
<1>4. DecidedOnce /\ Settleable
  BY DEF DecidedOnce, Settleable
<1>5. QED
  BY <1>1, <1>2, <1>3, <1>4 DEF IInv

\* Type correctness, one action at a time.
LEMMA TypeStep == TypeOK /\ RequestsRemember /\ [Next]_vars => TypeOK'
<1> SUFFICES ASSUME TypeOK, RequestsRemember, [Next]_vars PROVE TypeOK'
  OBVIOUS
<1> USE ReplayReviewAssumption DEF TypeOK, Status, Verdict, At, RequestsRemember
<1>1. ASSUME NEW r \in Request, NEW l \in Letter, NEW i \in Item, Submit(r, l, i)
      PROVE TypeOK'
  BY <1>1 DEF Submit, Goto
<1>2. ASSUME NEW r \in Request, Mark(r) PROVE TypeOK'
  BY <1>2, SMTT(30) DEF Mark, Goto, Return, Free
<1>3. ASSUME NEW r \in Request, NEW i \in Item, Create(r, i)
      PROVE TypeOK'
  BY <1>3 DEF Create, Goto
<1>4. ASSUME NEW r \in Request, Undo(r) PROVE TypeOK'
  BY <1>4 DEF Undo, Goto, KeepDropped, Return
<1>5. ASSUME NEW r \in Request, NEW i \in Item, Open(r, i)
      PROVE TypeOK'
  BY <1>5 DEF Open, Goto, Return
<1>6. ASSUME NEW i \in Item, NEW l \in Letter, CreateDirect(i, l)
      PROVE TypeOK'
  BY <1>6 DEF CreateDirect, requests
<1>7. ASSUME NEW i \in Item, Claim(i) PROVE TypeOK'
  BY <1>7 DEF Claim, requests
<1>8. ASSUME NEW i \in Item, Expire(i) PROVE TypeOK'
  BY <1>8 DEF Expire, requests
<1>9. ASSUME NEW r \in Request, NEW i \in Item, NEW v \in Verdict, Decide(r, i, v)
      PROVE TypeOK'
  BY <1>9 DEF Decide, Goto, MayDecide
<1>10. ASSUME NEW r \in Request, NEW i \in Item, Publish(r, i)
      PROVE TypeOK'
  BY <1>10 DEF Publish, Goto
<1>11. ASSUME NEW r \in Request, NEW i \in Item, Inline(r, i)
      PROVE TypeOK'
  BY <1>11, SMTT(30) DEF Inline, Goto, KeepDropped, Return, CarryOut, UnderReview, Raises
<1>12. ASSUME NEW r \in Request, NEW S \in SUBSET Item, NEW v \in Verdict, BatchStart(r, S, v)
      PROVE TypeOK'
  BY <1>12 DEF BatchStart, Goto
<1>13. ASSUME NEW r \in Request, NEW i \in Item, BatchDecide(r, i)
      PROVE TypeOK'
  BY <1>13 DEF BatchDecide, Goto, MayDecide
<1>14. ASSUME NEW r \in Request, NEW i \in Item, BatchFollow(r, i)
      PROVE TypeOK'
  BY <1>14, SMTT(30) DEF BatchFollow, Goto, KeepDropped, Drop, Return, CarryOut, UnderReview, Raises
<1>15. ASSUME NEW r \in Request, BatchEnd(r) PROVE TypeOK'
  BY <1>15 DEF BatchEnd, Goto, Return
<1>16. ASSUME NEW r \in Request, Crash(r) PROVE TypeOK'
  BY <1>16 DEF Crash, Goto, Drop, Return, Fault
<1>17. ASSUME NEW i \in Item, Consume(i) PROVE TypeOK'
  BY <1>17 DEF Consume, KeepDropped, CarryOut, UnderReview, Raises, Handles, requests
<1>18. ASSUME NEW i \in Item, ConsumeAgain(i) PROVE TypeOK'
  BY <1>18 DEF ConsumeAgain, KeepDropped, CarryOut, UnderReview, Raises, Handles, Fault, requests
<1>19. ASSUME NEW i \in Item, Park(i) PROVE TypeOK'
  BY <1>19 DEF Park, Fault, Raises, UnderReview, requests
<1>20. CASE UNCHANGED vars
  BY <1>20 DEF vars, requests
<1> HIDE DEF TypeOK, Status, Verdict, At, RequestsRemember
<1>21. QED
  BY <1>1, <1>2, <1>3, <1>4, <1>5, <1>6, <1>7, <1>8, <1>9, <1>10, <1>11,
     <1>12, <1>13, <1>14, <1>15, <1>16, <1>17, <1>18, <1>19, <1>20 DEF Next

\* What a request remembers stays true: the status of a decided item is final.
LEMMA RememberStep == TypeOK /\ RequestsRemember /\ [Next]_vars => RequestsRemember'
<1> SUFFICES ASSUME TypeOK, RequestsRemember, [Next]_vars PROVE RequestsRemember'
  OBVIOUS
<1> USE ReplayReviewAssumption DEF TypeOK, Status, Verdict, At, RequestsRemember
<1>1. ASSUME NEW r \in Request, NEW l \in Letter, NEW i \in Item, Submit(r, l, i)
      PROVE RequestsRemember'
  BY <1>1 DEF Submit, Goto
<1>2. ASSUME NEW r \in Request, Mark(r) PROVE RequestsRemember'
  BY <1>2 DEF Mark, Goto, Return, Free
<1>3. ASSUME NEW r \in Request, NEW i \in Item, Create(r, i)
      PROVE RequestsRemember'
  BY <1>3 DEF Create, Goto
<1>4. ASSUME NEW r \in Request, Undo(r) PROVE RequestsRemember'
  BY <1>4 DEF Undo, Goto, Return
<1>5. ASSUME NEW r \in Request, NEW i \in Item, Open(r, i)
      PROVE RequestsRemember'
  BY <1>5 DEF Open, Goto, Return
<1>6. ASSUME NEW i \in Item, NEW l \in Letter, CreateDirect(i, l)
      PROVE RequestsRemember'
  BY <1>6 DEF CreateDirect, requests
<1>7. ASSUME NEW i \in Item, Claim(i) PROVE RequestsRemember'
  BY <1>7 DEF Claim, requests
<1>8. ASSUME NEW i \in Item, Expire(i) PROVE RequestsRemember'
  BY <1>8 DEF Expire, requests
<1>9. ASSUME NEW r \in Request, NEW i \in Item, NEW v \in Verdict, Decide(r, i, v)
      PROVE RequestsRemember'
  BY <1>9 DEF Decide, Goto, MayDecide
<1>10. ASSUME NEW r \in Request, NEW i \in Item, Publish(r, i)
      PROVE RequestsRemember'
  BY <1>10 DEF Publish, Goto
<1>11. ASSUME NEW r \in Request, NEW i \in Item, Inline(r, i)
      PROVE RequestsRemember'
  BY <1>11 DEF Inline, Goto, Return, CarryOut, UnderReview, Raises
<1>12. ASSUME NEW r \in Request, NEW S \in SUBSET Item, NEW v \in Verdict, BatchStart(r, S, v)
      PROVE RequestsRemember'
  BY <1>12 DEF BatchStart, Goto
<1>13. ASSUME NEW r \in Request, NEW i \in Item, BatchDecide(r, i)
      PROVE RequestsRemember'
  BY <1>13 DEF BatchDecide, Goto, MayDecide
<1>14. ASSUME NEW r \in Request, NEW i \in Item, BatchFollow(r, i)
      PROVE RequestsRemember'
  BY <1>14 DEF BatchFollow, Goto, Return, CarryOut, UnderReview, Raises
<1>15. ASSUME NEW r \in Request, BatchEnd(r) PROVE RequestsRemember'
  BY <1>15 DEF BatchEnd, Goto, Return
<1>16. ASSUME NEW r \in Request, Crash(r) PROVE RequestsRemember'
  BY <1>16 DEF Crash, Goto, Return, Fault
<1>17. ASSUME NEW i \in Item, Consume(i) PROVE RequestsRemember'
  BY <1>17 DEF Consume, CarryOut, UnderReview, Raises, Handles, requests
<1>18. ASSUME NEW i \in Item, ConsumeAgain(i)
      PROVE RequestsRemember'
  BY <1>18 DEF ConsumeAgain, CarryOut, UnderReview, Raises, Handles, Fault, requests
<1>19. ASSUME NEW i \in Item, Park(i) PROVE RequestsRemember'
  BY <1>19 DEF Park, Fault, Raises, UnderReview, requests
<1>20. CASE UNCHANGED vars
  BY <1>20 DEF vars, requests
<1> HIDE DEF RequestsRemember
<1>21. QED
  BY <1>1, <1>2, <1>3, <1>4, <1>5, <1>6, <1>7, <1>8, <1>9, <1>10, <1>11,
     <1>12, <1>13, <1>14, <1>15, <1>16, <1>17, <1>18, <1>19, <1>20 DEF Next

\* Only a decided item has an event.
LEMMA EventsStep == TypeOK /\ RequestsRemember /\ ItemsAgree /\ [Next]_vars => ItemsAgree'
<1> SUFFICES ASSUME TypeOK, RequestsRemember, ItemsAgree, [Next]_vars PROVE ItemsAgree'
  OBVIOUS
<1> USE ReplayReviewAssumption DEF TypeOK, Status, Verdict, At, RequestsRemember, ItemsAgree
<1>1. ASSUME NEW r \in Request, NEW l \in Letter, NEW i \in Item, Submit(r, l, i)
      PROVE ItemsAgree'
  BY <1>1 DEF Submit, Goto
<1>2. ASSUME NEW r \in Request, Mark(r) PROVE ItemsAgree'
  BY <1>2 DEF Mark, Goto, Return, Free
<1>3. ASSUME NEW r \in Request, NEW i \in Item, Create(r, i)
      PROVE ItemsAgree'
  BY <1>3 DEF Create, Goto
<1>4. ASSUME NEW r \in Request, Undo(r) PROVE ItemsAgree'
  BY <1>4 DEF Undo, Goto, Return
<1>5. ASSUME NEW r \in Request, NEW i \in Item, Open(r, i)
      PROVE ItemsAgree'
  BY <1>5 DEF Open, Goto, Return
<1>6. ASSUME NEW i \in Item, NEW l \in Letter, CreateDirect(i, l)
      PROVE ItemsAgree'
  BY <1>6 DEF CreateDirect, requests
<1>7. ASSUME NEW i \in Item, Claim(i) PROVE ItemsAgree'
  BY <1>7 DEF Claim, requests
<1>8. ASSUME NEW i \in Item, Expire(i) PROVE ItemsAgree'
  BY <1>8 DEF Expire, requests
<1>9. ASSUME NEW r \in Request, NEW i \in Item, NEW v \in Verdict, Decide(r, i, v)
      PROVE ItemsAgree'
  BY <1>9 DEF Decide, Goto, MayDecide
<1>10. ASSUME NEW r \in Request, NEW i \in Item, Publish(r, i)
      PROVE ItemsAgree'
  BY <1>10 DEF Publish, Goto
<1>11. ASSUME NEW r \in Request, NEW i \in Item, Inline(r, i)
      PROVE ItemsAgree'
  BY <1>11 DEF Inline, Goto, Return, CarryOut, UnderReview, Raises
<1>12. ASSUME NEW r \in Request, NEW S \in SUBSET Item, NEW v \in Verdict, BatchStart(r, S, v)
      PROVE ItemsAgree'
  BY <1>12 DEF BatchStart, Goto
<1>13. ASSUME NEW r \in Request, NEW i \in Item, BatchDecide(r, i)
      PROVE ItemsAgree'
  BY <1>13 DEF BatchDecide, Goto, MayDecide
<1>14. ASSUME NEW r \in Request, NEW i \in Item, BatchFollow(r, i)
      PROVE ItemsAgree'
  BY <1>14 DEF BatchFollow, Goto, Return, CarryOut, UnderReview, Raises
<1>15. ASSUME NEW r \in Request, BatchEnd(r) PROVE ItemsAgree'
  BY <1>15 DEF BatchEnd, Goto, Return
<1>16. ASSUME NEW r \in Request, Crash(r) PROVE ItemsAgree'
  BY <1>16 DEF Crash, Goto, Return, Fault
<1>17. ASSUME NEW i \in Item, Consume(i) PROVE ItemsAgree'
  BY <1>17 DEF Consume, CarryOut, UnderReview, Raises, Handles, requests
<1>18. ASSUME NEW i \in Item, ConsumeAgain(i) PROVE ItemsAgree'
  BY <1>18 DEF ConsumeAgain, CarryOut, UnderReview, Raises, Handles, Fault, requests
<1>19. ASSUME NEW i \in Item, Park(i) PROVE ItemsAgree'
  BY <1>19 DEF Park, Fault, Raises, UnderReview, requests
<1>20. CASE UNCHANGED vars
  BY <1>20 DEF vars, requests
<1> HIDE DEF ItemsAgree
<1>21. QED
  BY <1>1, <1>2, <1>3, <1>4, <1>5, <1>6, <1>7, <1>8, <1>9, <1>10, <1>11,
     <1>12, <1>13, <1>14, <1>15, <1>16, <1>17, <1>18, <1>19, <1>20 DEF Next

\* A verdict is carried out on the letter of an item that has it.
LEMMA ApprovalStep == TypeOK /\ RequestsRemember /\ ItemsAgree /\ ReplayNeedsApproval /\ [Next]_vars => ReplayNeedsApproval'
<1> SUFFICES ASSUME TypeOK, RequestsRemember, ItemsAgree, ReplayNeedsApproval, [Next]_vars PROVE ReplayNeedsApproval'
  OBVIOUS
<1> USE ReplayReviewAssumption DEF TypeOK, Status, Verdict, At, RequestsRemember, ItemsAgree, ReplayNeedsApproval
<1>1. ASSUME NEW r \in Request, NEW l \in Letter, NEW i \in Item, Submit(r, l, i)
      PROVE ReplayNeedsApproval'
  BY <1>1 DEF Submit, Goto
<1>2. ASSUME NEW r \in Request, Mark(r) PROVE ReplayNeedsApproval'
  BY <1>2 DEF Mark, Goto, Return, Free
<1>3. ASSUME NEW r \in Request, NEW i \in Item, Create(r, i)
      PROVE ReplayNeedsApproval'
  BY <1>3 DEF Create, Goto
<1>4. ASSUME NEW r \in Request, Undo(r) PROVE ReplayNeedsApproval'
  BY <1>4 DEF Undo, Goto, Return
<1>5. ASSUME NEW r \in Request, NEW i \in Item, Open(r, i)
      PROVE ReplayNeedsApproval'
  BY <1>5 DEF Open, Goto, Return
<1>6. ASSUME NEW i \in Item, NEW l \in Letter, CreateDirect(i, l)
      PROVE ReplayNeedsApproval'
  BY <1>6 DEF CreateDirect, requests
<1>7. ASSUME NEW i \in Item, Claim(i) PROVE ReplayNeedsApproval'
  BY <1>7 DEF Claim, requests
<1>8. ASSUME NEW i \in Item, Expire(i) PROVE ReplayNeedsApproval'
  BY <1>8 DEF Expire, requests
<1>9. ASSUME NEW r \in Request, NEW i \in Item, NEW v \in Verdict, Decide(r, i, v)
      PROVE ReplayNeedsApproval'
  BY <1>9 DEF Decide, Goto, MayDecide
<1>10. ASSUME NEW r \in Request, NEW i \in Item, Publish(r, i)
      PROVE ReplayNeedsApproval'
  BY <1>10 DEF Publish, Goto
<1>11. ASSUME NEW r \in Request, NEW i \in Item, Inline(r, i)
      PROVE ReplayNeedsApproval'
  BY <1>11 DEF Inline, Goto, Return, CarryOut, UnderReview, Raises
<1>12. ASSUME NEW r \in Request, NEW S \in SUBSET Item, NEW v \in Verdict, BatchStart(r, S, v)
      PROVE ReplayNeedsApproval'
  BY <1>12 DEF BatchStart, Goto
<1>13. ASSUME NEW r \in Request, NEW i \in Item, BatchDecide(r, i)
      PROVE ReplayNeedsApproval'
  BY <1>13 DEF BatchDecide, Goto, MayDecide
<1>14. ASSUME NEW r \in Request, NEW i \in Item, BatchFollow(r, i)
      PROVE ReplayNeedsApproval'
  BY <1>14 DEF BatchFollow, Goto, Return, CarryOut, UnderReview, Raises
<1>15. ASSUME NEW r \in Request, BatchEnd(r)
      PROVE ReplayNeedsApproval'
  BY <1>15 DEF BatchEnd, Goto, Return
<1>16. ASSUME NEW r \in Request, Crash(r) PROVE ReplayNeedsApproval'
  BY <1>16 DEF Crash, Goto, Return, Fault
<1>17. ASSUME NEW i \in Item, Consume(i) PROVE ReplayNeedsApproval'
  BY <1>17 DEF Consume, CarryOut, UnderReview, Raises, Handles, requests
<1>18. ASSUME NEW i \in Item, ConsumeAgain(i)
      PROVE ReplayNeedsApproval'
  BY <1>18 DEF ConsumeAgain, CarryOut, UnderReview, Raises, Handles, Fault, requests
<1>19. ASSUME NEW i \in Item, Park(i) PROVE ReplayNeedsApproval'
  BY <1>19 DEF Park, Fault, Raises, UnderReview, requests
<1>20. CASE UNCHANGED vars
  BY <1>20 DEF vars, requests
<1> HIDE DEF ReplayNeedsApproval
<1>21. QED
  BY <1>1, <1>2, <1>3, <1>4, <1>5, <1>6, <1>7, <1>8, <1>9, <1>10, <1>11,
     <1>12, <1>13, <1>14, <1>15, <1>16, <1>17, <1>18, <1>19, <1>20 DEF Next

\* Only a dead letter under review is replayed.
LEMMA OnceStep == TypeOK /\ RequestsRemember /\ ReplaysOnce /\ [Next]_vars => ReplaysOnce'
<1> SUFFICES ASSUME TypeOK, RequestsRemember, ReplaysOnce, [Next]_vars PROVE ReplaysOnce'
  OBVIOUS
<1> USE ReplayReviewAssumption DEF TypeOK, Status, Verdict, At, RequestsRemember, ReplaysOnce
<1>1. ASSUME NEW r \in Request, NEW l \in Letter, NEW i \in Item, Submit(r, l, i)
      PROVE ReplaysOnce'
  BY <1>1 DEF Submit, Goto
<1>2. ASSUME NEW r \in Request, Mark(r) PROVE ReplaysOnce'
  BY <1>2 DEF Mark, Goto, Return, Free
<1>3. ASSUME NEW r \in Request, NEW i \in Item, Create(r, i)
      PROVE ReplaysOnce'
  BY <1>3 DEF Create, Goto
<1>4. ASSUME NEW r \in Request, Undo(r) PROVE ReplaysOnce'
  BY <1>4 DEF Undo, Goto, Return
<1>5. ASSUME NEW r \in Request, NEW i \in Item, Open(r, i)
      PROVE ReplaysOnce'
  BY <1>5 DEF Open, Goto, Return
<1>6. ASSUME NEW i \in Item, NEW l \in Letter, CreateDirect(i, l)
      PROVE ReplaysOnce'
  BY <1>6 DEF CreateDirect, requests
<1>7. ASSUME NEW i \in Item, Claim(i) PROVE ReplaysOnce'
  BY <1>7 DEF Claim, requests
<1>8. ASSUME NEW i \in Item, Expire(i) PROVE ReplaysOnce'
  BY <1>8 DEF Expire, requests
<1>9. ASSUME NEW r \in Request, NEW i \in Item, NEW v \in Verdict, Decide(r, i, v)
      PROVE ReplaysOnce'
  BY <1>9 DEF Decide, Goto, MayDecide
<1>10. ASSUME NEW r \in Request, NEW i \in Item, Publish(r, i)
      PROVE ReplaysOnce'
  BY <1>10 DEF Publish, Goto
<1>11. ASSUME NEW r \in Request, NEW i \in Item, Inline(r, i)
      PROVE ReplaysOnce'
  BY <1>11 DEF Inline, Goto, Return, CarryOut, UnderReview, Raises
<1>12. ASSUME NEW r \in Request, NEW S \in SUBSET Item, NEW v \in Verdict, BatchStart(r, S, v)
      PROVE ReplaysOnce'
  BY <1>12 DEF BatchStart, Goto
<1>13. ASSUME NEW r \in Request, NEW i \in Item, BatchDecide(r, i)
      PROVE ReplaysOnce'
  BY <1>13 DEF BatchDecide, Goto, MayDecide
<1>14. ASSUME NEW r \in Request, NEW i \in Item, BatchFollow(r, i)
      PROVE ReplaysOnce'
  BY <1>14 DEF BatchFollow, Goto, Return, CarryOut, UnderReview, Raises
<1>15. ASSUME NEW r \in Request, BatchEnd(r) PROVE ReplaysOnce'
  BY <1>15 DEF BatchEnd, Goto, Return
<1>16. ASSUME NEW r \in Request, Crash(r) PROVE ReplaysOnce'
  BY <1>16 DEF Crash, Goto, Return, Fault
<1>17. ASSUME NEW i \in Item, Consume(i) PROVE ReplaysOnce'
  BY <1>17 DEF Consume, CarryOut, UnderReview, Raises, Handles, requests
<1>18. ASSUME NEW i \in Item, ConsumeAgain(i) PROVE ReplaysOnce'
  BY <1>18 DEF ConsumeAgain, CarryOut, UnderReview, Raises, Handles, Fault, requests
<1>19. ASSUME NEW i \in Item, Park(i) PROVE ReplaysOnce'
  BY <1>19 DEF Park, Fault, Raises, UnderReview, requests
<1>20. CASE UNCHANGED vars
  BY <1>20 DEF vars, requests
<1> HIDE DEF ReplaysOnce
<1>21. QED
  BY <1>1, <1>2, <1>3, <1>4, <1>5, <1>6, <1>7, <1>8, <1>9, <1>10, <1>11,
     <1>12, <1>13, <1>14, <1>15, <1>16, <1>17, <1>18, <1>19, <1>20 DEF Next

\* A submit that puts a dead letter under review is alone with it.
LEMMA HolderStep == TypeOK /\ RequestsRemember /\ OneHolder /\ [Next]_vars => OneHolder'
<1> SUFFICES ASSUME TypeOK, RequestsRemember, OneHolder, [Next]_vars PROVE OneHolder'
  OBVIOUS
<1> USE DEF TypeOK, RequestsRemember, OneHolder, Holds
<1>1. ASSUME UNCHANGED <<at, about>>,
             \A l \in Letter : replayState'[l] = "pending" => replayState[l] = "pending"
      PROVE  OneHolder'
  BY <1>1
<1>2. ASSUME NEW i \in Item, NEW v,
             (UNCHANGED <<replayState, reopened>>) \/ CarryOut(target[i], v)
      PROVE  \A l \in Letter : replayState'[l] = "pending" => replayState[l] = "pending"
  BY <1>2 DEF CarryOut
<1>3. ASSUME NEW r \in Request, at'[r] \notin {"create", "undo"},
             \E to : at' = [at EXCEPT ![r] = to],
             \A s \in Request \ {r} : about'[s] = about[s],
             \A l \in Letter : replayState'[l] = "pending" => replayState[l] = "pending"
      PROVE  OneHolder'
  BY <1>3
<1>4. ASSUME NEW i \in Item,
             \/ Claim(i) \/ Expire(i) \/ Consume(i) \/ ConsumeAgain(i) \/ Park(i)
             \/ \E l \in Letter : CreateDirect(i, l)
      PROVE  OneHolder'
  BY <1>1, <1>2, <1>4
     DEF Claim, Expire, Consume, ConsumeAgain, Park, CreateDirect, requests
<1>5. ASSUME NEW r \in Request, NEW l \in Letter, NEW i \in Item, Submit(r, l, i)
      PROVE  OneHolder'
  BY <1>5 DEF Submit, Goto
<1>6. ASSUME NEW r \in Request, Mark(r) PROVE OneHolder'
  <2>1. about[r] \in Letter
    BY <1>6 DEF Mark
  <2>2. CASE Free(about[r])
    BY <1>6, <2>1, <2>2 DEF Mark, Free, Goto
  <2>3. CASE ~Free(about[r])
    BY <1>6, <2>3 DEF Mark, Goto, Return
  <2>4. QED
    BY <2>2, <2>3
<1>7. ASSUME NEW r \in Request, NEW i \in Item, Create(r, i) PROVE OneHolder'
  BY <1>7 DEF Create, Goto
<1>8. ASSUME NEW r \in Request, Undo(r) PROVE OneHolder'
  <2>1. Holds(r, about[r]) /\ about[r] \in Letter
    BY <1>8 DEF Undo
  <2>2. \A s \in Request, l \in Letter : Holds(s, l)' => Holds(s, l) /\ s # r /\ l # about[r]
    BY <1>8, <2>1 DEF Undo, Goto, Return
  <2>3. \A l \in Letter \ {about[r]} : replayState'[l] = replayState[l]
    BY <1>8 DEF Undo
  <2> HIDE DEF Holds
  <2>4. QED
    BY <2>2, <2>3
<1>9. ASSUME NEW r \in Request, NEW i \in Item,
             \/ Open(r, i) \/ Publish(r, i) \/ BatchDecide(r, i)
             \/ \E v \in Verdict : Decide(r, i, v)
      PROVE  OneHolder'
  BY <1>3, <1>9 DEF Open, Publish, BatchDecide, Decide, Goto, Return
<1>10. ASSUME NEW r \in Request, NEW i \in Item, Inline(r, i) PROVE OneHolder'
  BY <1>2, <1>3, <1>10 DEF Inline, Goto, Return
<1>11. ASSUME NEW r \in Request, NEW i \in Item, BatchFollow(r, i) PROVE OneHolder'
  <2>1. CASE Raises(target[i], verdict[r])
    BY <1>2, <1>3, <1>11, <2>1 DEF BatchFollow, Goto, Return
  <2>2. CASE ~Raises(target[i], verdict[r])
    BY <1>1, <1>2, <1>11, <2>2 DEF BatchFollow
  <2>3. QED
    BY <2>1, <2>2
<1>12. CASE UNCHANGED vars
  BY <1>1, <1>12 DEF vars
<1> HIDE DEF OneHolder
<1>13. ASSUME NEW r \in Request, BatchEnd(r) \/ Crash(r) PROVE OneHolder'
  BY <1>3, <1>13 DEF BatchEnd, Crash, Goto, Return
<1>14. ASSUME NEW r \in Request, NEW S \in SUBSET Item, NEW v \in Verdict,
              BatchStart(r, S, v)
       PROVE  OneHolder'
  BY <1>3, <1>14 DEF BatchStart, Goto
<1>15. QED
  BY <1>4, <1>5, <1>6, <1>7, <1>8, <1>9, <1>10, <1>11, <1>12, <1>13, <1>14 DEF Next

\* The compare-and-set of Mark lets one submit through.
LEMMA SubmitStep == TypeOK /\ RequestsRemember /\ OneHolder /\ OneSubmit /\ ~DirectCreate /\ [Next]_vars => OneSubmit'
<1> SUFFICES ASSUME TypeOK, RequestsRemember, OneHolder, OneSubmit, ~DirectCreate, [Next]_vars PROVE OneSubmit'
  OBVIOUS
<1> USE ReplayReviewAssumption DEF TypeOK, Status, Verdict, At, RequestsRemember, OneHolder, OneSubmit, Holds
<1>1. ASSUME NEW r \in Request, NEW l \in Letter, NEW i \in Item, Submit(r, l, i)
      PROVE OneSubmit'
  BY <1>1 DEF Submit, Goto
<1>2. ASSUME NEW r \in Request, Mark(r) PROVE OneSubmit'
  <2> SUFFICES ASSUME NEW l \in Letter
       PROVE /\ \A r1 \in Request : Holds(r1, l)' => replayState'[l] = "under_review"
             /\ \A r1 \in Request, k \in Item : Holds(r1, l)' => target'[k] # l
             /\ \A k \in Item : replayState'[l] = "pending" => target'[k] # l
             /\ \A j, k \in Item : target'[j] = l /\ target'[k] = l => j = k
    OBVIOUS
  <2>1. \A r1 \in Request : Holds(r1, l)' => replayState'[l] = "under_review"
    BY <1>2 DEF Mark, Goto, Return, Free
  <2>2. \A r1 \in Request, k \in Item : Holds(r1, l)' => target'[k] # l
    BY <1>2 DEF Mark, Goto, Return, Free
  <2>3. \A k \in Item : replayState'[l] = "pending" => target'[k] # l
    BY <1>2 DEF Mark, Goto, Return, Free
  <2>4. \A j, k \in Item : target'[j] = l /\ target'[k] = l => j = k
    BY <1>2 DEF Mark, Goto, Return, Free
  <2> QED
    BY <2>1, <2>2, <2>3, <2>4
<1>3. ASSUME NEW r \in Request, NEW i \in Item, Create(r, i)
      PROVE OneSubmit'
  <2> SUFFICES ASSUME NEW l \in Letter
       PROVE /\ \A r1 \in Request : Holds(r1, l)' => replayState'[l] = "under_review"
             /\ \A r1 \in Request, k \in Item : Holds(r1, l)' => target'[k] # l
             /\ \A k \in Item : replayState'[l] = "pending" => target'[k] # l
             /\ \A j, k \in Item : target'[j] = l /\ target'[k] = l => j = k
    OBVIOUS
  <2>1. \A r1 \in Request : Holds(r1, l)' => replayState'[l] = "under_review"
    BY <1>3 DEF Create, Goto
  <2>2. \A r1 \in Request, k \in Item : Holds(r1, l)' => target'[k] # l
    BY <1>3 DEF Create, Goto
  <2>3. \A k \in Item : replayState'[l] = "pending" => target'[k] # l
    BY <1>3 DEF Create, Goto
  <2>4. \A j, k \in Item : target'[j] = l /\ target'[k] = l => j = k
    <3>1. CASE status[i] # "none"
      BY <1>3, <3>1 DEF Create
    <3>2. CASE status[i] = "none"
      <4>1. Holds(r, about[r]) /\ about[r] \in Letter
        BY <1>3 DEF Create
      <4>2. \A k \in Item : target[k] # about[r]
        BY <4>1
      <4>3. target' = [target EXCEPT ![i] = about[r]]
        BY <1>3, <3>2 DEF Create
      <4>4. QED
        BY <4>2, <4>3
    <3>3. QED
      BY <3>1, <3>2
  <2> QED
    BY <2>1, <2>2, <2>3, <2>4
<1>4. ASSUME NEW r \in Request, Undo(r) PROVE OneSubmit'
  BY <1>4 DEF Undo, Goto, Return
<1>5. ASSUME NEW r \in Request, NEW i \in Item, Open(r, i)
      PROVE OneSubmit'
  BY <1>5 DEF Open, Goto, Return
<1>6. ASSUME NEW i \in Item, NEW l \in Letter, CreateDirect(i, l)
      PROVE OneSubmit'
  BY <1>6 DEF CreateDirect, requests
<1>7. ASSUME NEW i \in Item, Claim(i) PROVE OneSubmit'
  BY <1>7 DEF Claim, requests
<1>8. ASSUME NEW i \in Item, Expire(i) PROVE OneSubmit'
  BY <1>8 DEF Expire, requests
<1>9. ASSUME NEW r \in Request, NEW i \in Item, NEW v \in Verdict, Decide(r, i, v)
      PROVE OneSubmit'
  BY <1>9 DEF Decide, Goto, MayDecide
<1>10. ASSUME NEW r \in Request, NEW i \in Item, Publish(r, i)
      PROVE OneSubmit'
  BY <1>10 DEF Publish, Goto
<1>11. ASSUME NEW r \in Request, NEW i \in Item, Inline(r, i)
      PROVE OneSubmit'
  BY <1>11 DEF Inline, Goto, Return, CarryOut, UnderReview, Raises
<1>12. ASSUME NEW r \in Request, NEW S \in SUBSET Item, NEW v \in Verdict, BatchStart(r, S, v)
      PROVE OneSubmit'
  BY <1>12 DEF BatchStart, Goto
<1>13. ASSUME NEW r \in Request, NEW i \in Item, BatchDecide(r, i)
      PROVE OneSubmit'
  BY <1>13 DEF BatchDecide, Goto, MayDecide
<1>14. ASSUME NEW r \in Request, NEW i \in Item, BatchFollow(r, i)
      PROVE OneSubmit'
  <2> SUFFICES ASSUME NEW l \in Letter
       PROVE /\ \A r1 \in Request : Holds(r1, l)' => replayState'[l] = "under_review"
             /\ \A r1 \in Request, k \in Item : Holds(r1, l)' => target'[k] # l
             /\ \A k \in Item : replayState'[l] = "pending" => target'[k] # l
             /\ \A j, k \in Item : target'[j] = l /\ target'[k] = l => j = k
    OBVIOUS
  <2>1. \A r1 \in Request : Holds(r1, l)' => replayState'[l] = "under_review"
    BY <1>14 DEF BatchFollow, Goto, Return, CarryOut, UnderReview, Raises
  <2>2. \A r1 \in Request, k \in Item : Holds(r1, l)' => target'[k] # l
    BY <1>14 DEF BatchFollow, Goto, Return, CarryOut, UnderReview, Raises
  <2>3. \A k \in Item : replayState'[l] = "pending" => target'[k] # l
    BY <1>14 DEF BatchFollow, Goto, Return, CarryOut, UnderReview, Raises
  <2>4. \A j, k \in Item : target'[j] = l /\ target'[k] = l => j = k
    BY <1>14 DEF BatchFollow, Goto, Return, CarryOut, UnderReview, Raises
  <2> QED
    BY <2>1, <2>2, <2>3, <2>4
<1>15. ASSUME NEW r \in Request, BatchEnd(r) PROVE OneSubmit'
  BY <1>15 DEF BatchEnd, Goto, Return
<1>16. ASSUME NEW r \in Request, Crash(r) PROVE OneSubmit'
  BY <1>16 DEF Crash, Goto, Return, Fault
<1>17. ASSUME NEW i \in Item, Consume(i) PROVE OneSubmit'
  BY <1>17 DEF Consume, CarryOut, UnderReview, Raises, Handles, requests
<1>18. ASSUME NEW i \in Item, ConsumeAgain(i) PROVE OneSubmit'
  BY <1>18 DEF ConsumeAgain, CarryOut, UnderReview, Raises, Handles, Fault, requests
<1>19. ASSUME NEW i \in Item, Park(i) PROVE OneSubmit'
  BY <1>19 DEF Park, Fault, Raises, UnderReview, requests
<1>20. CASE UNCHANGED vars
  BY <1>20 DEF vars, requests
<1> HIDE DEF OneSubmit
<1>21. QED
  BY <1>1, <1>2, <1>3, <1>4, <1>5, <1>6, <1>7, <1>8, <1>9, <1>10, <1>11,
     <1>12, <1>13, <1>14, <1>15, <1>16, <1>17, <1>18, <1>19, <1>20 DEF Next

\* A verdict is given once, so its event does not exist before it is published.
LEMMA DecidedStep ==
  TypeOK /\ RequestsRemember /\ ItemsAgree /\ DecidedOnce /\ [Next]_vars => DecidedOnce'
<1> SUFFICES ASSUME TypeOK, RequestsRemember, ItemsAgree, DecidedOnce, [Next]_vars PROVE DecidedOnce'
  OBVIOUS
<1> USE ReplayReviewAssumption DEF TypeOK, Status, Verdict, At, RequestsRemember, ItemsAgree, DecidedOnce
<1>1. ASSUME NEW r \in Request, NEW l \in Letter, NEW i \in Item, Submit(r, l, i)
      PROVE DecidedOnce'
  BY <1>1 DEF Submit, Goto
<1>2. ASSUME NEW r \in Request, Mark(r) PROVE DecidedOnce'
  BY <1>2 DEF Mark, Goto, Return, Free
<1>3. ASSUME NEW r \in Request, NEW i \in Item, Create(r, i)
      PROVE DecidedOnce'
  BY <1>3 DEF Create, Goto
<1>4. ASSUME NEW r \in Request, Undo(r) PROVE DecidedOnce'
  BY <1>4 DEF Undo, Goto, Return
<1>5. ASSUME NEW r \in Request, NEW i \in Item, Open(r, i)
      PROVE DecidedOnce'
  BY <1>5 DEF Open, Goto, Return
<1>6. ASSUME NEW i \in Item, NEW l \in Letter, CreateDirect(i, l)
      PROVE DecidedOnce'
  BY <1>6 DEF CreateDirect, requests
<1>7. ASSUME NEW i \in Item, Claim(i) PROVE DecidedOnce'
  BY <1>7 DEF Claim, requests
<1>8. ASSUME NEW i \in Item, Expire(i) PROVE DecidedOnce'
  BY <1>8 DEF Expire, requests
<1>9. ASSUME NEW r \in Request, NEW i \in Item, NEW v \in Verdict, Decide(r, i, v)
      PROVE DecidedOnce'
  BY <1>9 DEF Decide, Goto, MayDecide
<1>10. ASSUME NEW r \in Request, NEW i \in Item, Publish(r, i)
      PROVE DecidedOnce'
  BY <1>10 DEF Publish, Goto
<1>11. ASSUME NEW r \in Request, NEW i \in Item, Inline(r, i)
      PROVE DecidedOnce'
  BY <1>11 DEF Inline, Goto, Return, CarryOut, UnderReview, Raises
<1>12. ASSUME NEW r \in Request, NEW S \in SUBSET Item, NEW v \in Verdict, BatchStart(r, S, v)
      PROVE DecidedOnce'
  BY <1>12 DEF BatchStart, Goto
<1>13. ASSUME NEW r \in Request, NEW i \in Item, BatchDecide(r, i)
      PROVE DecidedOnce'
  BY <1>13 DEF BatchDecide, Goto, MayDecide
<1>14. ASSUME NEW r \in Request, NEW i \in Item, BatchFollow(r, i)
      PROVE DecidedOnce'
  BY <1>14 DEF BatchFollow, Goto, Return, CarryOut, UnderReview, Raises
<1>15. ASSUME NEW r \in Request, BatchEnd(r) PROVE DecidedOnce'
  BY <1>15 DEF BatchEnd, Goto, Return
<1>16. ASSUME NEW r \in Request, Crash(r) PROVE DecidedOnce'
  BY <1>16 DEF Crash, Goto, Return, Fault
<1>17. ASSUME NEW i \in Item, Consume(i) PROVE DecidedOnce'
  BY <1>17 DEF Consume, CarryOut, UnderReview, Raises, Handles, requests
<1>18. ASSUME NEW i \in Item, ConsumeAgain(i) PROVE DecidedOnce'
  BY <1>18 DEF ConsumeAgain, CarryOut, UnderReview, Raises, Handles, Fault, requests
<1>19. ASSUME NEW i \in Item, Park(i) PROVE DecidedOnce'
  BY <1>19 DEF Park, Fault, Raises, UnderReview, requests
<1>20. CASE UNCHANGED vars
  BY <1>20 DEF vars, requests
<1> HIDE DEF DecidedOnce
<1>21. QED
  BY <1>1, <1>2, <1>3, <1>4, <1>5, <1>6, <1>7, <1>8, <1>9, <1>10, <1>11,
     <1>12, <1>13, <1>14, <1>15, <1>16, <1>17, <1>18, <1>19, <1>20 DEF Next

\* Whoever stops attending to a dead letter hands it on, or drops it.
LEMMA AttendStep ==
  TypeOK /\ RequestsRemember /\ ItemsAgree /\ DecidedOnce /\ Settleable /\ [Next]_vars => Settleable'
<1> SUFFICES ASSUME TypeOK, RequestsRemember, ItemsAgree, DecidedOnce, Settleable, [Next]_vars
             PROVE Settleable'
  OBVIOUS
<1> USE ReplayReviewAssumption DEF TypeOK, Status, Verdict, At, RequestsRemember, ItemsAgree, DecidedOnce, Settleable, Attended, Carries
<1>1. ASSUME NEW r \in Request, NEW l \in Letter, NEW i \in Item, Submit(r, l, i)
      PROVE Settleable'
  BY <1>1 DEF Submit, Goto
<1>2. ASSUME NEW r \in Request, Mark(r) PROVE Settleable'
  BY <1>2 DEF Mark, Goto, Return, Free
<1>3. ASSUME NEW r \in Request, NEW i \in Item, Create(r, i)
      PROVE Settleable'
  <2> SUFFICES ASSUME NEW l \in Letter, replayState[l] = "under_review", l \notin dropped
               PROVE  Attended(l)'
    BY <1>3 DEF Create
  <2>1. ASSUME NEW q \in Request, Carries(q, l), q # r \/ status[i] # "none"
        PROVE  Carries(q, l)'
    BY <1>3, <2>1 DEF Create, Goto
  <2>2. CASE status[i] = "none" /\ Carries(r, l)
    <3>1. l = about[r] /\ status'[i] = "pending" /\ target'[i] = l /\ ~expires'[i]
      BY <1>3, <2>2 DEF Create
    <3>2. QED
      BY <3>1
  <2>3. ASSUME NEW k \in Item, target[k] = l,
               (status[k] \in {"pending", "in_review"} /\ ~expires[k]) \/ event[k] = "open"
        PROVE  Attended(l)'
    <3>1. status[k] # "none"
      BY <2>3
    <3>2. target'[k] = target[k] /\ status'[k] = status[k]
      BY <1>3, <3>1 DEF Create
    <3>3. expires'[k] = expires[k] /\ event'[k] = event[k]
      BY <1>3 DEF Create
    <3>4. QED
      BY <2>3, <3>2, <3>3
  <2>4. QED
    BY <2>1, <2>2, <2>3
<1>4. ASSUME NEW r \in Request, Undo(r) PROVE Settleable'
  BY <1>4 DEF Undo, Goto, KeepDropped, Return
<1>5. ASSUME NEW r \in Request, NEW i \in Item, Open(r, i)
      PROVE Settleable'
  BY <1>5 DEF Open, Goto, Return
<1>6. ASSUME NEW i \in Item, NEW l \in Letter, CreateDirect(i, l)
      PROVE Settleable'
  BY <1>6 DEF CreateDirect, requests
<1>7. ASSUME NEW i \in Item, Claim(i) PROVE Settleable'
  BY <1>7 DEF Claim, requests
<1>8. ASSUME NEW i \in Item, Expire(i) PROVE Settleable'
  BY <1>8 DEF Expire, requests
<1>9. ASSUME NEW r \in Request, NEW i \in Item, NEW v \in Verdict, Decide(r, i, v)
      PROVE Settleable'
  BY <1>9 DEF Decide, Goto, MayDecide
<1>10. ASSUME NEW r \in Request, NEW i \in Item, Publish(r, i)
      PROVE Settleable'
  BY <1>10 DEF Publish, Goto
<1>11. ASSUME NEW r \in Request, NEW i \in Item, Inline(r, i)
      PROVE Settleable'
  BY <1>11 DEF Inline, Goto, KeepDropped, Return, CarryOut, UnderReview, Raises
<1>12. ASSUME NEW r \in Request, NEW S \in SUBSET Item, NEW v \in Verdict, BatchStart(r, S, v)
      PROVE Settleable'
  BY <1>12 DEF BatchStart, Goto
<1>13. ASSUME NEW r \in Request, NEW i \in Item, BatchDecide(r, i)
      PROVE Settleable'
  BY <1>13 DEF BatchDecide, Goto, MayDecide
<1>14. ASSUME NEW r \in Request, NEW i \in Item, BatchFollow(r, i)
      PROVE Settleable'
  BY <1>14 DEF BatchFollow, Goto, KeepDropped, Drop, Return, CarryOut, UnderReview, Raises
<1>15. ASSUME NEW r \in Request, BatchEnd(r) PROVE Settleable'
  BY <1>15 DEF BatchEnd, Goto, Return
<1>16. ASSUME NEW r \in Request, Crash(r) PROVE Settleable'
  BY <1>16 DEF Crash, Goto, Drop, Return, Fault
<1>17. ASSUME NEW i \in Item, Consume(i) PROVE Settleable'
  BY <1>17 DEF Consume, KeepDropped, CarryOut, UnderReview, Raises, Handles, requests
<1>18. ASSUME NEW i \in Item, ConsumeAgain(i) PROVE Settleable'
  BY <1>18 DEF ConsumeAgain, KeepDropped, CarryOut, UnderReview, Raises, Handles, Fault, requests
<1>19. ASSUME NEW i \in Item, Park(i) PROVE Settleable'
  BY <1>19 DEF Park, Fault, Raises, UnderReview, requests
<1>20. CASE UNCHANGED vars
  BY <1>20 DEF vars, requests
<1> HIDE DEF Settleable
<1>21. QED
  BY <1>1, <1>2, <1>3, <1>4, <1>5, <1>6, <1>7, <1>8, <1>9, <1>10, <1>11,
     <1>12, <1>13, <1>14, <1>15, <1>16, <1>17, <1>18, <1>19, <1>20 DEF Next

----------------------------------------------------------------------------
(* The theorems.                                                            *)

\* Code behaviour: the invariant behind the review of replays (see README).
THEOREM ReviewInvariant == Spec => []IInv
<1>1. IInv /\ [Next]_vars => IInv'
  BY TypeStep, RememberStep, EventsStep, ApprovalStep, OnceStep, HolderStep,
     SubmitStep, DecidedStep, AttendStep DEF IInv
<1>2. QED
  BY InvInit, <1>1, PTL DEF Spec

\* Code behaviour: no dead letter is replayed or cancelled but on a verdict
\* that stands (db/review_items.py:167-207, review_items.py:917-1108).
THEOREM ReplaysAreApproved == Spec => []ReplayNeedsApproval
<1>1. IInv => ReplayNeedsApproval
  BY DEF IInv
<1>2. QED
  BY ReviewInvariant, <1>1, PTL

\* Code behaviour: request and consumer together replay it once
\* (review_items.py:940-947, review_consumer.py:320-327).
THEOREM OneReplay == Spec => []ReplaysOnce
<1>1. IInv => ReplaysOnce
  BY DEF IInv
<1>2. QED
  BY ReviewInvariant, <1>1, PTL

\* Code behaviour: submits of one dead letter do not race (dead_letters.py:
\* 193-247), although the check and the change of state are two transactions.
THEOREM SubmitsAreExclusive == Spec => []SubmitsDoNotRace
<1>1. IInv => SubmitsDoNotRace
  BY DEF IInv, OneSubmit, SubmitsDoNotRace, NoParallelReviews, Active
<1>2. QED
  BY ReviewInvariant, <1>1, PTL

\* Code behaviour: the transactions of submits and verdicts (dead_letters.py:
\* 193-247, review_items.py:324-909).  With or without events.updated_at, and
\* whatever dies, a dead letter under review has someone to settle it, or it was
\* dropped at one of the places that Settleable names.
THEOREM OnlyDroppedLettersWait == Spec => []Settleable
<1>1. IInv => Settleable
  BY DEF IInv
<1>2. QED
  BY ReviewInvariant, <1>1, PTL

----------------------------------------------------------------------------
(* The refinement.                                                          *)

\* Reviews and submits as the abstract reviews see them.
Shown(i) == IF status[i] \in {"pending", "in_review"} THEN "open" ELSE status[i]
Shows == [i \in Item |-> Shown(i)]
Held == {l \in Letter : \E r \in Request : Holds(r, l)}

\* Nothing that the abstract reviews show changes.
LEMMA Unseen ==
  ASSUME UNCHANGED <<replayState, reopened, target>>, Shows' = Shows, Held' = Held
  PROVE  UNCHANGED Life!vars
  BY DEF Life!vars, Shows, Shown, Held

\* A step in which no item is decided, created or expires shows no review.
LEMMA SameShows ==
  ASSUME \A i \in Item : \/ status'[i] = status[i]
                         \/ status[i] = "pending" /\ status'[i] = "in_review"
  PROVE  Shows' = Shows
<1>1. \A i \in Item : Shown(i)' = Shown(i)
  BY DEF Shown
<1>2. QED
  BY <1>1 DEF Shows

\* One item changes.
LEMMA OneShows ==
  ASSUME TypeOK, NEW i \in Item, NEW s, status' = [status EXCEPT ![i] = s]
  PROVE  Shows' = [Shows EXCEPT ![i] = IF s \in {"pending", "in_review"} THEN "open" ELSE s]
<1>1. \A k \in Item : Shown(k)' = IF k = i
                                  THEN IF s \in {"pending", "in_review"} THEN "open" ELSE s
                                  ELSE Shown(k)
  BY DEF TypeOK, Shown
<1>2. QED
  BY <1>1 DEF Shows

\* A request that neither holds nor gets hold of a dead letter.
LEMMA SameHeld ==
  ASSUME TypeOK, NEW r \in Request,
         at[r] \notin {"create", "undo"}, at'[r] \notin {"create", "undo"},
         \E to : at' = [at EXCEPT ![r] = to],
         \A s \in Request \ {r} : about'[s] = about[s]
  PROVE  Held' = Held
<1>1. \A s \in Request, l \in Letter : Holds(s, l)' <=> Holds(s, l)
  BY DEF TypeOK, Holds
<1>2. QED
  BY <1>1 DEF Held

\* A request that lets go of its dead letter; nobody else has it.
LEMMA LetGo ==
  ASSUME IInv, NEW r \in Request, NEW l \in Letter, Holds(r, l),
         at'[r] \notin {"create", "undo"},
         \E to : at' = [at EXCEPT ![r] = to],
         \A s \in Request \ {r} : about'[s] = about[s]
  PROVE  l \in Held /\ Held' = Held \ {l}
<1>1. \A s \in Request, k \in Letter : Holds(s, k)' <=> Holds(s, k) /\ s # r
  BY DEF IInv, TypeOK, Holds
<1>2. \A s \in Request : Holds(s, l) => s = r
  BY DEF IInv, OneHolder
<1>3. \A k \in Letter : Holds(r, k) => k = l
  BY DEF Holds
<1>4. QED
  BY <1>1, <1>2, <1>3 DEF Held

\* What a verdict does to a dead letter whose review has ended with it.
LEMMA CarryOutIsLife ==
  ASSUME IInv, NEW i \in Item, NEW v \in Verdict, status[i] = v,
         CarryOut(target[i], v), UNCHANGED <<status, target>>, Held' = Held
  PROVE  Life!Next \/ UNCHANGED Life!vars
<1> DEFINE l == target[i]
<1>1. l \in Letter
  BY DEF IInv, TypeOK, Verdict
<1>2. Shows' = Shows
  BY SameShows
<1>3. Shows[i] = v
  BY DEF Shows, Shown, Verdict
<1>4. CASE UnderReview(l) /\ ~Raises(l, v) /\ v = "approved"
  <2>1. reopened[l] = 0
    BY <1>1, <1>4 DEF IInv, ReplaysOnce, UnderReview
  <2>2. replayState' = [replayState EXCEPT ![l] = "replayed"]
        /\ reopened' = [reopened EXCEPT ![l] = @ + 1]
    BY <1>4, <2>1 DEF CarryOut
  <2>3. Life!Replay(l)
    BY <1>2, <1>3, <1>4, <2>2 DEF UnderReview, Life!Replay, Life!Ruled, Shows, Shown, Held
  <2>4. QED
    BY <1>1, <2>3 DEF Life!Next
<1>5. CASE UnderReview(l) /\ ~Raises(l, v) /\ v # "approved"
  <2>1. replayState' = [replayState EXCEPT ![l] = "cancelled"] /\ reopened' = reopened
    BY <1>1, <1>5 DEF CarryOut, IInv, TypeOK
  <2>2. v \in {"rejected", "cancelled"}
    BY <1>5 DEF Verdict
  <2>3. Life!Close(l)
    BY <1>2, <1>3, <1>5, <2>1, <2>2 DEF UnderReview, Life!Close, Life!Ruled, Shows, Shown, Held
  <2>4. QED
    BY <1>1, <2>3 DEF Life!Next
<1>6. CASE ~(UnderReview(l) /\ ~Raises(l, v))
  BY <1>2, <1>6, Unseen DEF CarryOut
<1>7. QED
  BY <1>4, <1>5, <1>6

\* An item is decided or expires.
LEMMA RuleIsLife ==
  ASSUME IInv, NEW i \in Item, NEW v \in Verdict \cup {"expired"},
         status[i] \in {"pending", "in_review"}, status' = [status EXCEPT ![i] = v],
         UNCHANGED <<replayState, reopened, target>>, Held' = Held
  PROVE  Life!Next
<1>1. Shows' = [Shows EXCEPT ![i] = v] /\ Shows[i] = "open"
  BY OneShows DEF IInv, Verdict, Shows, Shown
<1>2. Life!Rule(i, v)
  BY <1>1 DEF Life!Rule, Shows, Shown, Held
<1>3. QED
  BY <1>2 DEF Life!Next, Life!Verdict, Verdict

\* A new item.
LEMMA ReviewIsLife ==
  ASSUME IInv, NEW i \in Item, NEW l \in Letter,
         status[i] = "none", status' = [status EXCEPT ![i] = "pending"],
         target' = [target EXCEPT ![i] = l],
         UNCHANGED <<replayState, reopened>>, Held' \in {Held, Held \ {l}}
  PROVE  Life!Next
<1>1. Shows' = [Shows EXCEPT ![i] = "open"] /\ Shows[i] = "none"
  BY OneShows DEF IInv, Shows, Shown
<1>2. Life!Review(i, l)
  BY <1>1 DEF Life!Review, Shows, Shown, Held
<1>3. QED
  BY <1>2 DEF Life!Next

\* The transactions of a submit.
LEMMA SubmitIsLife ==
  ASSUME IInv, NEW r \in Request,
         \/ \E l \in Letter, i \in Item : Submit(r, l, i)
         \/ \E i \in Item : Create(r, i) \/ Open(r, i)
         \/ Mark(r) \/ Undo(r) \/ Crash(r)
  PROVE  Life!Next \/ UNCHANGED Life!vars
<1> USE DEF IInv, TypeOK
<1>1. ASSUME NEW l \in Letter, NEW i \in Item, Submit(r, l, i) PROVE UNCHANGED Life!vars
  <2>1. Held' = Held
    BY <1>1, SameHeld DEF Submit, Goto
  <2>2. QED
    BY <1>1, <2>1, SameShows, Unseen DEF Submit
<1>2. CASE Mark(r)
  <2>1. about[r] \in Letter
    BY <1>2 DEF Mark, RequestsRemember
  <2>2. CASE Free(about[r])
    <3>1. \A s \in Request, l \in Letter : Holds(s, l)' <=> Holds(s, l) \/ (s = r /\ l = about[r])
      BY <1>2, <2>2 DEF Mark, Goto, Holds
    <3>2. Held' = Held \cup {about[r]}
      BY <2>1, <3>1 DEF Held
    <3>3. Shows' = Shows
      BY <1>2, SameShows DEF Mark
    <3>4. Life!Ask(about[r])
      BY <1>2, <2>2, <3>2, <3>3 DEF Mark, Free, Life!Ask, Shows, Shown, Held
    <3>5. QED
      BY <2>1, <3>4 DEF Life!Next
  <2>3. CASE ~Free(about[r])
    <3>1. Held' = Held
      BY <1>2, <2>3, SameHeld DEF Mark, Goto, Return
    <3>2. QED
      BY <1>2, <2>3, <3>1, SameShows, Unseen DEF Mark
  <2>4. QED
    BY <2>2, <2>3
<1>3. ASSUME NEW i \in Item, Create(r, i) PROVE Life!Next \/ UNCHANGED Life!vars
  <2>1. about[r] \in Letter /\ Holds(r, about[r])
    BY <1>3 DEF Create, RequestsRemember, Holds
  <2>2. CASE status[i] = "none"
    <3>1. Held' = Held \ {about[r]}
      BY <1>3, <2>1, <2>2, LetGo DEF Create, Goto
    <3>2. QED
      BY <1>3, <2>1, <2>2, <3>1, ReviewIsLife DEF Create
  <2>3. CASE status[i] # "none"
    <3>1. \A s \in Request, l \in Letter : Holds(s, l)' <=> Holds(s, l)
      BY <1>3, <2>3 DEF Create, Goto, Holds
    <3>2. Held' = Held
      BY <3>1 DEF Held
    <3>3. QED
      BY <1>3, <2>3, <3>2, SameShows, Unseen DEF Create
  <2>4. QED
    BY <2>2, <2>3
<1>4. ASSUME NEW i \in Item, Open(r, i) PROVE UNCHANGED Life!vars
  <2>1. Held' = Held
    BY <1>4, SameHeld DEF Open, Goto, Return
  <2>2. Shows' = Shows
    BY <1>4, SameShows DEF Open
  <2>3. QED
    BY <1>4, <2>1, <2>2, Unseen DEF Open
<1>5. CASE Undo(r)
  <2>1. about[r] \in Letter /\ Holds(r, about[r])
    BY <1>5 DEF Undo, RequestsRemember, Holds
  <2>2. about[r] \in Held /\ Held' = Held \ {about[r]}
    BY <1>5, <2>1, LetGo DEF Undo, Goto, Return
  <2>3. Shows' = Shows
    BY <1>5, SameShows DEF Undo
  <2>4. \/ replayState' = replayState
        \/ /\ replayState[about[r]] = "under_review"
           /\ replayState' = [replayState EXCEPT ![about[r]] = "pending"]
    BY <1>5, <2>1 DEF Undo
  <2>5. Life!GiveUp(about[r])
    BY <1>5, <2>2, <2>3, <2>4 DEF Undo, Life!GiveUp, Shows, Shown, Held
  <2>6. QED
    BY <2>1, <2>5 DEF Life!Next
<1>6. CASE Crash(r)
  <2>1. Shows' = Shows
    BY <1>6, SameShows DEF Crash
  <2>2. CASE at[r] \in {"create", "undo"}
    <3>1. about[r] \in Letter /\ Holds(r, about[r])
      BY <2>2 DEF RequestsRemember, Holds
    <3>2. about[r] \in Held /\ Held' = Held \ {about[r]}
      BY <1>6, <3>1, LetGo DEF Crash, Goto, Return
    <3>3. Life!GiveUp(about[r])
      BY <1>6, <2>1, <3>2 DEF Crash, Life!GiveUp, Shows, Shown, Held
    <3>4. QED
      BY <3>1, <3>3 DEF Life!Next
  <2>3. CASE at[r] \notin {"create", "undo"}
    <3>1. Held' = Held
      BY <1>6, <2>3, SameHeld DEF Crash, Goto, Return
    <3>2. QED
      BY <1>6, <2>1, <3>1, Unseen DEF Crash
  <2>4. QED
    BY <2>2, <2>3
<1>7. QED
  BY <1>1, <1>2, <1>3, <1>4, <1>5, <1>6

\* The transactions of a decision, single or in a batch.
LEMMA DecisionIsLife ==
  ASSUME IInv, NEW r \in Request,
         \/ \E i \in Item, v \in Verdict : Decide(r, i, v)
         \/ \E S \in SUBSET Item, v \in Verdict : BatchStart(r, S, v)
         \/ \E i \in Item : \/ Publish(r, i) \/ Inline(r, i)
                           \/ BatchDecide(r, i) \/ BatchFollow(r, i)
         \/ BatchEnd(r)
  PROVE  Life!Next \/ UNCHANGED Life!vars
<1> USE DEF IInv, TypeOK
<1>1. Held' = Held
  <2>1. at[r] \notin {"create", "undo"}
    BY DEF Decide, BatchStart, Publish, Inline, BatchDecide, BatchFollow, BatchEnd
  <2>2. at' = at \/ \E to \in At \ {"create", "undo"} : at' = [at EXCEPT ![r] = to]
    BY DEF Decide, BatchStart, Publish, Inline, BatchDecide, BatchFollow, BatchEnd, Goto, Return, At
  <2>3. \A s \in Request \ {r} : about'[s] = about[s]
    BY DEF Decide, BatchStart, Publish, Inline, BatchDecide, BatchFollow, BatchEnd, Return
  <2>4. CASE at' = at
    <3>1. at' = [at EXCEPT ![r] = at[r]]
      BY <2>4
    <3>2. QED
      BY <2>1, <2>3, <2>4, <3>1, SameHeld
  <2>5. CASE \E to \in At \ {"create", "undo"} : at' = [at EXCEPT ![r] = to]
    BY <2>1, <2>3, <2>5, SameHeld
  <2>6. QED
    BY <2>2, <2>4, <2>5
<1>2. ASSUME NEW i \in Item, NEW v \in Verdict, Decide(r, i, v) PROVE Life!Next
  <2>1. status[i] \in {"pending", "in_review"}
    BY <1>2 DEF Decide, MayDecide
  <2>2. QED
    BY <1>1, <1>2, <2>1, RuleIsLife DEF Decide
<1>3. ASSUME NEW S \in SUBSET Item, NEW v \in Verdict, BatchStart(r, S, v)
      PROVE  UNCHANGED Life!vars
  BY <1>1, <1>3, SameShows, Unseen DEF BatchStart
<1>4. ASSUME NEW i \in Item, Publish(r, i) PROVE UNCHANGED Life!vars
  BY <1>1, <1>4, SameShows, Unseen DEF Publish
<1>5. ASSUME NEW i \in Item, Inline(r, i) \/ BatchFollow(r, i)
      PROVE  Life!Next \/ UNCHANGED Life!vars
  <2>1. verdict[r] \in Verdict /\ status[i] = verdict[r]
    BY <1>5 DEF Inline, BatchFollow, RequestsRemember
  <2>2. CarryOut(target[i], verdict[r]) /\ UNCHANGED <<status, target>>
    BY <1>5 DEF Inline, BatchFollow
  <2>3. QED
    BY <1>1, <2>1, <2>2, CarryOutIsLife
<1>6. ASSUME NEW i \in Item, BatchDecide(r, i) PROVE Life!Next \/ UNCHANGED Life!vars
  <2>1. verdict[r] \in Verdict
    BY <1>6 DEF BatchDecide, RequestsRemember
  <2>2. CASE MayDecide(i, verdict[r])
    <3>1. status[i] \in {"pending", "in_review"}
      BY <2>2 DEF MayDecide
    <3>2. QED
      BY <1>1, <1>6, <2>1, <2>2, <3>1, RuleIsLife DEF BatchDecide
  <2>3. CASE ~MayDecide(i, verdict[r])
    BY <1>1, <1>6, <2>3, SameShows, Unseen DEF BatchDecide
  <2>4. QED
    BY <2>2, <2>3
<1>7. CASE BatchEnd(r)
  BY <1>1, <1>7, SameShows, Unseen DEF BatchEnd
<1>8. QED
  BY <1>2, <1>3, <1>4, <1>5, <1>6, <1>7

\* Items and their events.
LEMMA ItemIsLife ==
  ASSUME IInv, NEW i \in Item,
         \/ \E l \in Letter : CreateDirect(i, l)
         \/ Claim(i) \/ Expire(i) \/ Consume(i) \/ ConsumeAgain(i) \/ Park(i)
  PROVE  Life!Next \/ UNCHANGED Life!vars
<1> USE DEF IInv, TypeOK
<1>1. Held' = Held
  BY DEF CreateDirect, Claim, Expire, Consume, ConsumeAgain, Park, requests, Held, Holds
<1>2. ASSUME NEW l \in Letter, CreateDirect(i, l) PROVE Life!Next
  BY <1>1, <1>2, ReviewIsLife DEF CreateDirect
<1>3. CASE Claim(i)
  <2>1. Shows' = Shows
    BY <1>3, SameShows DEF Claim
  <2>2. QED
    BY <1>1, <1>3, <2>1, Unseen DEF Claim
<1>4. CASE Expire(i)
  BY <1>1, <1>4, RuleIsLife DEF Expire
<1>5. CASE Consume(i) /\ Handles(i)
  BY <1>1, <1>5, CarryOutIsLife DEF Consume, Handles
<1>6. CASE Consume(i) /\ ~Handles(i)
  BY <1>1, <1>6, SameShows, Unseen DEF Consume
<1>7. CASE ConsumeAgain(i)
  BY <1>1, <1>7, CarryOutIsLife DEF ConsumeAgain, Handles
<1>8. CASE Park(i)
  BY <1>1, <1>8, SameShows, Unseen DEF Park
<1>9. QED
  BY <1>2, <1>3, <1>4, <1>5, <1>6, <1>7, <1>8

LEMMA LifeStep == IInv /\ [Next]_vars => [Life!Next]_(Life!vars)
<1> SUFFICES ASSUME IInv, [Next]_vars PROVE Life!Next \/ UNCHANGED Life!vars
  OBVIOUS
<1>1. CASE UNCHANGED vars
  BY <1>1 DEF vars, Life!vars, Holds
<1>2. QED
  BY <1>1, SubmitIsLife, DecisionIsLife, ItemIsLife DEF Next

\* Code behaviour: the guards of every update of review_items and dead_letters
\* (db/review_items.py:167-207, db/dead_letters.py:179-187, review_consumer.py:
\* 188-364).  A verdict stands, and takes effect once and at one moment, however
\* its transactions interleave, break off and are repeated.
THEOREM VerdictsStand == Spec => VerdictsTakeEffectOnce
<1>1. Init => Life!Init
  BY DEF Init, Life!Init, Holds
<1>2. QED
  BY <1>1, LifeStep, ReviewInvariant, PTL DEF Spec, Life!Spec, VerdictsTakeEffectOnce

=============================================================================
