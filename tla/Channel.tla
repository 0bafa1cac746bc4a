------------------------------- MODULE Channel -------------------------------
(***************************************************************************)
(* Lib/std/channel.nqr: a bounded mailbox that never waits, with its       *)
(* delivery counters.                                                      *)
(***************************************************************************)
EXTENDS ContainerSystem

ChannelInit ==
  /\ object = "channel"
  /\ \E n \in Capacities :
       store = [data |-> [s \in Slots(n) |-> Junk], capacity |-> n, length |-> 0, head |-> 0, closed |-> FALSE,
                sent |-> 0, received |-> 0, rejected |-> 0, empty |-> 0]
  /\ call = <<"init", 0, 0>>

ChannelSlot(c, i) == (c.head + i) % c.capacity
ChannelItems(c) == [i \in 1 .. c.length |-> c.data[ChannelSlot(c, i - 1)]]

channel_can_send(c) == ~c.closed /\ c.length < c.capacity

ChannelRejected(c) == [c EXCEPT !.rejected = (@ + 1) % Word]
ChannelSent(c, v) ==
  [c EXCEPT !.data[ChannelSlot(c, c.length)] = v, !.length = @ + 1, !.sent = (@ + 1) % Word]

channel_try_send(v) ==
  IF channel_can_send(store)
  THEN store' = ChannelSent(store, v) /\ Answer("append", v, TRUE)
  ELSE store' = ChannelRejected(store) /\ Answer("append", v, FALSE)

(* The loop of channel_try_send_many, over n values. *)
ChannelSentAll(c, vs, n) == Loop(LAMBDA d, i : ChannelSent(d, vs[i]), c, n)

(* It stops at the first value that is refused, which is counted once. *)
channel_try_send_many(vs) ==
  LET n == IF store.closed THEN 0 ELSE Smaller(Len(vs), store.capacity - store.length)
      after == ChannelSentAll(store, vs, n)
  IN  /\ store' = IF n < Len(vs) THEN ChannelRejected(after) ELSE after
      /\ Answer("appendAll", vs, n)

ChannelEmpty(c) == [c EXCEPT !.empty = (@ + 1) % Word]

(* What is left after the n oldest went; an empty channel starts again at slot 0. *)
ChannelDropped(c, n) ==
  [c EXCEPT !.length = @ - n, !.head = IF n = c.length THEN 0 ELSE ChannelSlot(c, n)]

ChannelReceived(c) == [ChannelDropped(c, 1) EXCEPT !.received = (@ + 1) % Word]

channel_try_receive ==
  IF store.length = 0 THEN store' = ChannelEmpty(store) /\ Answer("takeFirst", 0, <<>>)
  ELSE store' = ChannelReceived(store) /\ Answer("takeFirst", 0, <<store.data[store.head]>>)

(* The loop of channel_receive_many, n times. *)
ChannelReceivedMany(c, n) == Iterate(ChannelReceived, c, n)

channel_receive_many(n) ==
  LET count == Smaller(n, store.length)
      after == ChannelReceivedMany(store, count)
  IN  /\ store' = IF count < n THEN ChannelEmpty(after) ELSE after
      /\ Answer("takeMany", n, SubSeq(ChannelItems(store), 1, count))

channel_close ==
  IF store.closed THEN Stay("close", 0, FALSE)
  ELSE store' = [store EXCEPT !.closed = TRUE] /\ Answer("close", 0, TRUE)

channel_reopen_if_empty ==
  IF store.closed /\ store.length = 0
  THEN store' = [store EXCEPT !.closed = FALSE] /\ Answer("reopen", 0, TRUE)
  ELSE Stay("reopen", 0, FALSE)

channel_clear == store' = [store EXCEPT !.length = 0, !.head = 0] /\ Answer("clear", 0, TRUE)

channel_reset ==
  /\ store' = [store EXCEPT !.length = 0, !.head = 0, !.closed = FALSE,
                            !.sent = 0, !.received = 0, !.rejected = 0, !.empty = 0]
  /\ Answer("reset", 0, TRUE)

channel_drop_oldest(n) ==
  LET removed == Smaller(n, store.length)
  IN  /\ store' = IF store.length = 0 THEN store ELSE ChannelDropped(store, removed)
      /\ Answer("dropFirst", n, removed)

channel_keep_newest(n) ==
  IF n >= store.length THEN Stay("keepLast", n, store.length)
  ELSE store' = ChannelDropped(store, store.length - n) /\ Answer("keepLast", n, n)

ChannelNext ==
  /\ object = "channel"
  /\ \/ \E v \in Values : channel_try_send(v)
     \/ \E v, w \in Values : channel_try_send_many(<<v, w>>)
     \/ \E n \in Counts : channel_receive_many(n) \/ channel_drop_oldest(n) \/ channel_keep_newest(n)
     \/ channel_try_receive \/ channel_close \/ channel_reopen_if_empty \/ channel_clear \/ channel_reset

(* channel_invariant, and no value is read before it was written.          *)
ChannelTypeOK ==
  /\ store.capacity \in Capacities /\ store.length \in 0 .. store.capacity
  /\ store.head \in IF store.capacity = 0 THEN {0} ELSE Slots(store.capacity)
  /\ store.data \in [Slots(store.capacity) -> Values \cup {Junk}]
  /\ store.closed \in BOOLEAN
  /\ {store.sent, store.received, store.rejected, store.empty} \subseteq Slots(Word)
  /\ Junk \notin {ChannelItems(store)[i] : i \in 1 .. store.length}

(* What the channel owes its receivers: sent, neither received nor here.   *)
ChannelDropCount(c) == (c.sent - c.received - c.length) % Word
=============================================================================
