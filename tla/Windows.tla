------------------------------- MODULE Windows -------------------------------
(***************************************************************************)
(* What the rules of detector/rules/ share: a table from keys to sliding   *)
(* windows of events, the time of the last alert of each key, and what a   *)
(* rule returns, [d |-> its next state, alerts |-> what it raised].  An    *)
(* event is a record with the time it was seen in its field at.            *)
(***************************************************************************)
EXTENDS Integers, Sequences, FiniteSets, SequencesExt, TLC

\* Reading a dictionary with a default, and writing one.
Lookup(table, key, default) ==
  IF key \in DOMAIN table THEN table[key] ELSE default
Put(table, key, value) ==
  [k \in DOMAIN table \cup {key} |-> IF k = key THEN value ELSE table[k]]

\* A rule nobody has called yet.
EmptyRule == [seen |-> <<>>, last |-> <<>>]

Quiet(d) == [d |-> d, alerts |-> <<>>]
Alert(rule, key, severity) == [rule |-> rule, key |-> key, severity |-> severity]

\* Mutant: an event as old as the window is dropped.
RecentStrict(history, now, window) ==
  LET i == SelectInSeq(history, LAMBDA e : now - e.at < window)
  IN IF i = 0 THEN <<>> ELSE SubSeq(history, i, Len(history))

\* while history and now - history[0][0] > window: history.popleft()
Recent(history, now, window) ==
  LET i == SelectInSeq(history, LAMBDA e : now - e.at <= window)
  IN IF i = 0 THEN <<>> ELSE SubSeq(history, i, Len(history))

\* The window of a key with this event in it.
WindowOf(d, key, now, window, event) ==
  Append(Recent(Lookup(d.seen, key, <<>>), now, window), event)

\* Has the cooldown of the key passed?  (A key never alerted has 0.)
Cooled(d, key, now, cooldown) == now - Lookup(d.last, key, 0) >= cooldown

\* The window is kept, and when the rule fires the alert and its time too.
Judged(d, key, now, history, fires, alert) ==
  IF fires
  THEN [d |-> [seen |-> Put(d.seen, key, history), last |-> Put(d.last, key, now)],
        alerts |-> <<alert>>]
  ELSE Quiet([d EXCEPT !.seen = Put(@, key, history)])

Of(history, field) == {history[i][field] : i \in DOMAIN history}
Total(history, field) ==
  FoldSeq(LAMBDA e, sum : sum + e[field], 0, history)
=============================================================================
