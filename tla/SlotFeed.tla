------------------------------ MODULE SlotFeed ------------------------------
(***************************************************************************)
(* The websocket of the slot reader: MustConnect dials the node and        *)
(* subscribes to its slots, ReadSlotMessage reads until a read fails, and  *)
(* Stop cancels the context and closes the connection.  BlockPipeline has  *)
(* the same reader on a connection that always works.                      *)
(*                                                                         *)
(* Of the library (gorilla/websocket) this much is used: an error of a     *)
(* connection is final, each later read or write returns it again, and a   *)
(* program that keeps reading gets a panic in the end.  What the error     *)
(* says decides what ReadSlotMessage does: "ended" stands for the texts    *)
(* with "close" or "broken pipe" in them, "both" for those with both (a    *)
(* close frame brings any text along), "reset" for all others.             *)
(***************************************************************************)
EXTENDS Naturals

CONSTANTS
  Links,       \* connections; one that is dead can stand for a new one, so
               \* their number bounds those that are alive at once
  Subscribes,  \* attempts to subscribe on a connection (10)
  FailedReads  \* failed reads of a connection before the panic (1000)

ASSUME FeedAssumption ==
  /\ Links \subseteq Nat \ {0}
  /\ Subscribes \in Nat \ {0} /\ FailedReads \in Nat \ {0}

VARIABLES
  feedPc,   \* where the reader is
  conn,     \* s.Conn, and NoLink before the first
  link,     \* the state of each connection
  refusals, \* attempts to subscribe on conn that failed
  failures, \* failed reads of conn
  again,    \* the second MustConnect for one error is still to come
  spare,    \* history: connections that the first of two MustConnect made
  stop      \* how far Stop, or the shutdown listener, has come

feedVars == <<feedPc, conn, link, refusals, failures, again, spare, stop>>

NoLink == 0
Live   == {"open", "subscribed"}
Broken == {"ended", "reset", "both"}
IsLive(l) == link[l] \in Live
State  == link[conn]

FeedInit ==
  /\ feedPc = "idle" /\ conn = NoLink
  /\ link = [l \in Links |-> "closed"]
  /\ refusals = 0 /\ failures = 0
  /\ again = FALSE /\ spare = {} /\ stop = "no"

\* The reader's loop: it looks at the context, then reads.
Loop == IF stop = "no" THEN "read" ELSE "exited"

-----------------------------------------------------------------------------
(* MustConnect.                                                             *)

\* SlotWsServiceStart.
StartFeed ==
  /\ feedPc = "idle" /\ feedPc' = "dial"
  /\ UNCHANGED <<conn, link, refusals, failures, again, spare, stop>>

\* Dial succeeds; while it fails nothing changes.  It looks at no context, and
\* the connection that s.Conn had is not closed.
Dial ==
  /\ feedPc = "dial" /\ feedPc' = "subscribe"
  /\ \E l \in Links : ~IsLive(l) /\ conn' = l /\ link' = [link EXCEPT ![l] = "open"]
  /\ refusals' = 0 /\ failures' = 0
  /\ spare' = spare \ {conn'}
  /\ UNCHANGED <<again, stop>>

\* The request is written, and MustConnect returns: to the loop, or to the second
\* call for the same error.  A connection that the node has broken may take the
\* request too.
Subscribe ==
  /\ feedPc = "subscribe" /\ refusals = 0 /\ State # "closed"
  /\ link' = [link EXCEPT ![conn] = IF @ = "open" THEN "subscribed" ELSE @]
  /\ feedPc' = IF again THEN "dial" ELSE Loop
  /\ again' = FALSE /\ spare' = IF again THEN spare \cup {conn} ELSE spare
  /\ UNCHANGED <<conn, refusals, failures, stop>>

\* Mutant of SubscribeFails: one attempt too many.
SubscribeFailsMore ==
  /\ feedPc = "subscribe"
  /\ refusals' = refusals + 1
  /\ link' = [link EXCEPT ![conn] = IF @ = "open" THEN "reset" ELSE @]
  /\ feedPc' = IF refusals' > Subscribes THEN "dial" ELSE feedPc
  /\ UNCHANGED <<conn, failures, again, spare, stop>>

\* A write error, and every one after it; after the last the node is dialled again.
SubscribeFails ==
  /\ feedPc = "subscribe"
  /\ refusals' = refusals + 1
  /\ link' = [link EXCEPT ![conn] = IF @ = "open" THEN "reset" ELSE @]
  /\ feedPc' = IF refusals' = Subscribes THEN "dial" ELSE feedPc
  /\ UNCHANGED <<conn, failures, again, spare, stop>>

-----------------------------------------------------------------------------
(* ReadSlotMessage.                                                         *)

\* A slot; the reader goes on to the send to slotChannel.
ReadNewSlot ==
  /\ feedPc = "read" /\ State = "subscribed"
  /\ feedPc' = "send"
  /\ UNCHANGED <<conn, link, refusals, failures, again, spare, stop>>

\* A worker makes room in the channel.
SlotSent ==
  /\ feedPc = "send" /\ feedPc' = Loop
  /\ UNCHANGED <<conn, link, refusals, failures, again, spare, stop>>

\* Mutant of ReadOther: a message that cannot be parsed is answered by a reconnect.
ReadOtherReconnects ==
  /\ feedPc = "read" /\ State = "subscribed"
  /\ feedPc' \in {Loop, "dial"}
  /\ UNCHANGED <<conn, link, refusals, failures, again, spare, stop>>

\* A message that is not JSON, or says no slot.
ReadOther ==
  /\ feedPc = "read" /\ State = "subscribed"
  /\ feedPc' = Loop
  /\ UNCHANGED <<conn, link, refusals, failures, again, spare, stop>>

\* The error says that the connection is closed, by the node or by Stop, or that
\* the pipe is broken, or both; for each of the two there is a MustConnect.
ReadEnded ==
  /\ feedPc = "read" /\ State \in {"ended", "both", "closed"} /\ failures = 0
  /\ feedPc' = "dial" /\ again' = (State = "both")
  /\ UNCHANGED <<conn, link, refusals, failures, spare, stop>>

\* Any other error is logged, and read again.
ReadFails ==
  /\ feedPc = "read" /\ (State = "reset" \/ failures # 0)
  /\ failures < FailedReads
  /\ failures' = failures + 1 /\ feedPc' = Loop
  /\ UNCHANGED <<conn, link, refusals, again, spare, stop>>

\* Mutant of ReadPanics: the panic is recovered and no more.
ReadPanicsOn ==
  /\ feedPc = "read" /\ failures = FailedReads
  /\ feedPc' = Loop
  /\ UNCHANGED <<conn, link, refusals, failures, again, spare, stop>>

\* The library panics; the deferred function recovers and reconnects.
ReadPanics ==
  /\ feedPc = "read" /\ failures = FailedReads
  /\ feedPc' = "dial"
  /\ UNCHANGED <<conn, link, refusals, failures, again, spare, stop>>

-----------------------------------------------------------------------------
\* The network, or the node, ends a connection.  One that will be replaced twice
\* needs a further one of Links.
Break(l) ==
  /\ IsLive(l)
  /\ \E how \in Broken :
       /\ how = "both" => \E m \in Links \ {l} : ~IsLive(m)
       /\ link' = [link EXCEPT ![l] = how]
  /\ UNCHANGED <<feedPc, conn, refusals, failures, again, spare, stop>>

\* Stop, or the shutdown listener, which does no more than this.
Cancel ==
  /\ feedPc # "idle" /\ stop = "no" /\ stop' = "cancelled"
  /\ UNCHANGED <<feedPc, conn, link, refusals, failures, again, spare>>

\* Mutant of CloseConn: Stop leaves the connection open.
CloseNothing ==
  /\ stop = "cancelled" /\ stop' = "closed"
  /\ UNCHANGED <<feedPc, conn, link, refusals, failures, again, spare>>

\* Stop closes the connection that s.Conn has by now.
CloseConn ==
  /\ stop = "cancelled" /\ stop' = "closed"
  /\ link' = IF conn = NoLink THEN link ELSE [link EXCEPT ![conn] = "closed"]
  /\ UNCHANGED <<feedPc, conn, refusals, failures, again, spare>>

FeedNext ==
  \/ StartFeed \/ Dial \/ Subscribe \/ SubscribeFails
  \/ ReadNewSlot \/ SlotSent \/ ReadOther \/ ReadEnded \/ ReadFails \/ ReadPanics
  \/ (\E l \in Links : Break(l)) \/ Cancel \/ CloseConn

FeedSpec == FeedInit /\ [][FeedNext]_feedVars

(***************************************************************************)
(* The scheduler runs the reader.  Of the network this is assumed: a dial  *)
(* succeeds some time, and what could again and again be subscribed on     *)
(* before it breaks is: the last connection made for an error, and the     *)
(* first of two.  The workers make room in the channel as long as the      *)
(* process is not told to stop; then they are too.                         *)
(***************************************************************************)
FeedFairness ==
  /\ WF_feedVars(Dial) /\ WF_feedVars(stop = "no" /\ SlotSent)
  /\ WF_feedVars(SubscribeFails)
  /\ SF_feedVars(Subscribe /\ State = "open" /\ again)
  /\ SF_feedVars(Subscribe /\ State = "open" /\ ~again)
  /\ WF_feedVars(ReadEnded \/ ReadFails \/ ReadPanics)

FairFeedSpec == FeedSpec /\ FeedFairness

-----------------------------------------------------------------------------
\* Types of the variables; the attempts on a connection stay within their bounds,
\* and where the reader uses s.Conn there is one.
FeedTypeOK ==
  /\ feedPc \in {"idle", "dial", "subscribe", "read", "send", "exited"}
  /\ conn \in Links \cup {NoLink} /\ link \in [Links -> Live \cup Broken \cup {"closed"}]
  /\ refusals \in 0 .. Subscribes /\ failures \in 0 .. FailedReads
  /\ again \in BOOLEAN /\ spare \subseteq Links
  /\ stop \in {"no", "cancelled", "closed"}
  /\ feedPc \in {"subscribe", "read", "send"} => conn \in Links
  /\ feedPc = "subscribe" => refusals < Subscribes

\* However connections break and are replaced, what is alive is s.Conn: one
\* subscription, and the connections that MustConnect leaves unclosed are dead;
\* except the first of the two that are made when the text of one error has both
\* words in it, which nobody reads nor closes (websocket.go 60-94, 113-137).
OneFeed == \A l \in Links : IsLive(l) => l = conn \/ l \in spare

Listening == feedPc \in {"read", "send"} /\ State = "subscribed"

\* The reader always comes back to a subscribed connection, also from an error
\* whose text it does not know, for which it has nothing but the panic of the
\* library (websocket.go 62-90); unless it is stopped.
FeedResumes == feedPc # "idle" /\ ~Listening ~> Listening \/ stop # "no"

\* After Stop the reader ends, wherever the two found it: blocked in a read,
\* between the look at the context and the read, or in MustConnect, which looks
\* at no context and leaves one more connection; unless it stays in the send to
\* slotChannel, which looks at none either and which nobody need make room for
\* any more (slot.go 51-57, websocket.go 107).
StoppedFeedEnds == stop = "closed" ~> feedPc = "exited" \/ [](feedPc = "send")
=============================================================================
