--------------------------- MODULE SlotFeedProofs ---------------------------
(***************************************************************************)
(* Proofs about SlotFeed for any number of connections and any bounds.     *)
(***************************************************************************)
EXTENDS SlotFeed, TLAPS

\* What is alive is s.Conn, and nothing is while the reader dials; but for the
\* connections that a second MustConnect for one error left alone.
LiveIsConn == \A l \in Links :
  IsLive(l) => l \in spare \/ (l = conn /\ feedPc \notin {"idle", "dial"})

\* After a failed read or write s.Conn is dead.
FailedIsDead == refusals # 0 \/ failures # 0 => conn \in Links /\ ~IsLive(conn)

\* A connection is asked for the feed once.
AskedOnce == feedPc = "subscribe" => State # "subscribed"

FeedInv == FeedTypeOK /\ LiveIsConn /\ FailedIsDead /\ AskedOnce

LEMMA FeedStarts == FeedInit => FeedInv
<1> SUFFICES ASSUME FeedInit PROVE FeedInv
  OBVIOUS
<1>1. FeedTypeOK
  <2>1. conn \in Links \cup {NoLink} /\ link \in [Links -> Live \cup Broken \cup {"closed"}]
    BY DEF FeedInit
  <2>2. refusals \in 0 .. Subscribes /\ failures \in 0 .. FailedReads
    BY FeedAssumption DEF FeedInit
  <2> QED
    BY <2>1, <2>2 DEF FeedInit, FeedTypeOK
<1>2. \A l \in Links : ~IsLive(l)
  BY DEF FeedInit, IsLive, Live
<1>3. LiveIsConn
  BY <1>2 DEF LiveIsConn
<1> QED
  BY <1>1, <1>3 DEF FeedInit, FeedInv, FailedIsDead, AskedOnce

\* The steps that touch no connection and count nothing.
LEMMA PcStep ==
  ASSUME FeedInv, UNCHANGED <<conn, link, refusals, failures, spare>>,
         again' \in BOOLEAN, stop' \in {"no", "cancelled", "closed"},
         \/ feedPc' = feedPc
         \/ feedPc' \in {"read", "send", "exited"} /\ feedPc \in {"read", "send", "subscribe"}
         \/ feedPc' = "dial" /\ (conn \in Links => ~IsLive(conn))
  PROVE  FeedInv'
<1>1. \A l \in Links : IsLive(l)' <=> IsLive(l)
  BY DEF IsLive
<1>2. FeedTypeOK'
  BY FeedAssumption DEF FeedInv, FeedTypeOK
<1>3. LiveIsConn'
  BY <1>1 DEF FeedInv, LiveIsConn
<1>4. FailedIsDead' /\ AskedOnce'
  BY DEF FeedInv, FailedIsDead, AskedOnce, State, IsLive
<1> QED
  BY <1>2, <1>3, <1>4 DEF FeedInv

LEMMA FeedStep == FeedInv /\ [FeedNext]_feedVars => FeedInv'
<1> SUFFICES ASSUME FeedInv, [FeedNext]_feedVars PROVE FeedInv'
  OBVIOUS
<1>t. FeedTypeOK /\ LiveIsConn /\ FailedIsDead /\ AskedOnce
  BY DEF FeedInv
<1>l. Loop \in {"read", "exited"}
  BY DEF Loop
<1>1. CASE StartFeed
  <2>1. UNCHANGED <<conn, link, refusals, failures, again, spare, stop>> /\ feedPc = "idle"
    BY <1>1 DEF StartFeed
  <2>2. feedPc' = "dial"
    BY <1>1 DEF StartFeed
  <2>3. FeedTypeOK'
    BY <2>1, <2>2, <1>t DEF FeedTypeOK
  <2>4. LiveIsConn'
    BY <2>1, <2>2, <1>t DEF LiveIsConn, IsLive
  <2> QED
    BY <2>1, <2>2, <2>3, <2>4, <1>t DEF FeedInv, FailedIsDead, AskedOnce, IsLive
<1>2. CASE Dial
  <2>1. PICK l \in Links : ~IsLive(l) /\ conn' = l /\ link' = [link EXCEPT ![l] = "open"]
    BY <1>2 DEF Dial
  <2>2. \A m \in Links : IsLive(m) => m \in spare
    BY <1>2, <1>t DEF Dial, LiveIsConn
  <2>3. FeedTypeOK'
    BY <1>2, <1>t, <2>1, FeedAssumption DEF Dial, FeedTypeOK, Live, Broken
  <2>4. LiveIsConn'
    BY <1>2, <1>t, <2>1, <2>2 DEF Dial, LiveIsConn, IsLive, FeedTypeOK
  <2> QED
    BY <1>2, <1>t, <2>1, <2>3, <2>4 DEF Dial, FeedInv, FailedIsDead, AskedOnce, State, FeedTypeOK
<1>3. CASE Subscribe
  <2>1. conn \in Links /\ link[conn] # "closed"
    BY <1>3, <1>t DEF Subscribe, FeedTypeOK, State
  <2>2. link' = [link EXCEPT ![conn] = IF @ = "open" THEN "subscribed" ELSE @]
    BY <1>3 DEF Subscribe
  <2>3. \A m \in Links : IsLive(m)' <=> IsLive(m)
    BY <1>t, <2>1, <2>2 DEF IsLive, Live, FeedTypeOK
  <2>4. FeedTypeOK'
    BY <1>3, <1>l, <1>t, <2>1, <2>2 DEF Subscribe, FeedTypeOK, Live, Broken
  <2>5. LiveIsConn' /\ FailedIsDead'
    BY <1>3, <1>l, <1>t, <2>1, <2>3 DEF Subscribe, LiveIsConn, FailedIsDead, FeedTypeOK
  <2> QED
    BY <1>3, <1>l, <2>4, <2>5 DEF Subscribe, FeedInv, AskedOnce
<1>4. CASE SubscribeFails
  <2>1. conn \in Links
    BY <1>4, <1>t DEF SubscribeFails, FeedTypeOK
  <2>2. link' = [link EXCEPT ![conn] = IF @ = "open" THEN "reset" ELSE @]
    BY <1>4 DEF SubscribeFails
  <2>3. ~IsLive(conn)'
    BY <1>4, <1>t, <2>1, <2>2 DEF SubscribeFails, AskedOnce, State, IsLive, Live, FeedTypeOK
  <2>4. FeedTypeOK'
    BY <1>4, <1>t, <2>1, <2>2, FeedAssumption DEF SubscribeFails, FeedTypeOK, Broken
  <2>5. \A m \in Links : IsLive(m)' => IsLive(m) /\ m # conn
    BY <1>4, <1>t, <2>1, <2>2, <2>3 DEF SubscribeFails, IsLive, FeedTypeOK
  <2> QED
    BY <1>4, <1>t, <2>1, <2>3, <2>4, <2>5
    DEF SubscribeFails, FeedInv, LiveIsConn, FailedIsDead, AskedOnce, State, IsLive, Live
<1>5. CASE ReadNewSlot
  BY <1>5, <1>t, PcStep DEF ReadNewSlot, FeedTypeOK
<1>6. CASE SlotSent \/ ReadOther
  BY <1>6, <1>l, <1>t, PcStep DEF SlotSent, ReadOther, FeedTypeOK
<1>7. CASE ReadEnded
  <2>1. ~IsLive(conn)
    BY <1>7 DEF ReadEnded, IsLive, Live, State
  <2> QED
    BY <1>7, <2>1, <1>t, PcStep DEF ReadEnded, FeedTypeOK
<1>8. CASE ReadFails
  <2>1. conn \in Links /\ ~IsLive(conn)
    BY <1>8, <1>t DEF ReadFails, FeedTypeOK, FailedIsDead, IsLive, Live, State
  <2>2. FeedTypeOK'
    BY <1>8, <1>l, <1>t, FeedAssumption DEF ReadFails, FeedTypeOK
  <2> QED
    BY <1>8, <1>l, <1>t, <2>1, <2>2
    DEF ReadFails, FeedInv, LiveIsConn, FailedIsDead, AskedOnce, IsLive
<1>9. CASE ReadPanics
  <2>1. failures # 0
    BY <1>9, FeedAssumption DEF ReadPanics
  <2> QED
    BY <1>9, <2>1, <1>t, PcStep DEF ReadPanics, FeedTypeOK, FailedIsDead
<1>10. CASE \E l \in Links : Break(l)
  <2>1. PICK l \in Links, how \in Broken : link' = [link EXCEPT ![l] = how]
    BY <1>10 DEF Break
  <2>2. \A m \in Links : IsLive(m)' => IsLive(m)
    BY <2>1, <1>t DEF IsLive, FeedTypeOK, Live, Broken
  <2>3. FeedTypeOK'
    BY <1>10, <2>1, <1>t DEF Break, FeedTypeOK
  <2> QED
    BY <1>10, <1>t, <2>1, <2>2, <2>3
    DEF Break, FeedInv, LiveIsConn, FailedIsDead, AskedOnce, State, Broken, FeedTypeOK
<1>11. CASE Cancel
  BY <1>11, <1>t, PcStep DEF Cancel, FeedTypeOK
<1>12. CASE CloseConn
  <2>1. link' \in [Links -> Live \cup Broken \cup {"closed"}]
    BY <1>12, <1>t DEF CloseConn, FeedTypeOK
  <2>2. \A m \in Links : IsLive(m)' => IsLive(m)
    BY <1>12, <1>t DEF CloseConn, IsLive, FeedTypeOK, Live
  <2>3. FeedTypeOK'
    BY <1>12, <2>1, <1>t DEF CloseConn, FeedTypeOK
  <2> QED
    BY <1>12, <1>t, <2>2, <2>3
    DEF CloseConn, FeedInv, LiveIsConn, FailedIsDead, AskedOnce, State, FeedTypeOK
<1>13. CASE UNCHANGED feedVars
  BY <1>13, <1>t, PcStep DEF feedVars, FeedTypeOK
<1> QED
  BY <1>1, <1>2, <1>3, <1>4, <1>5, <1>6, <1>7, <1>8, <1>9, <1>10, <1>11, <1>12, <1>13
  DEF FeedNext

LEMMA FeedInvariant == FeedSpec => []FeedInv
BY FeedStarts, FeedStep, PTL DEF FeedSpec

\* The types, with the bounds of the attempts, for every bound (MustConnect).
THEOREM FeedTypeCorrect == FeedSpec => []FeedTypeOK
<1>1. FeedInv => FeedTypeOK
  BY DEF FeedInv
<1> QED
  BY <1>1, FeedInvariant, PTL

\* At most one connection is alive, however many there have been, unless an error
\* had both texts in it: then also the first of the two that MustConnect made for
\* it (ReadSlotMessage, MustConnect).
THEOREM OneFeedTheorem == FeedSpec => []OneFeed
<1>1. FeedInv => OneFeed
  BY DEF FeedInv, LiveIsConn, OneFeed
<1> QED
  BY <1>1, FeedInvariant, PTL
=============================================================================
