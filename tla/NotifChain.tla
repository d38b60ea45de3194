----------------------------- MODULE NotifChain -----------------------------
(***************************************************************************)
(* The routing table of ThreadBasics/NFC and its notification chains:      *)
(* subscriber threads register for destinations, a publisher thread adds   *)
(* and updates them and calls the subscribers back.                        *)
(*                                                                         *)
(* No lock is taken anywhere.  main lets a second pass between the starts  *)
(* of the threads; if that is long enough (spaced), one thread is through  *)
(* with its part before the next begins.  A walk along the table is one    *)
(* action, and so is a call of the whole chain; the read and the write of  *)
(* the head of a list are two.                                             *)
(***************************************************************************)
EXTENDS Naturals, Sequences, FiniteSets

CONSTANTS
    Subscribers,    \* 1 .. 3: the client ids
    Updates,        \* bound: how many updates the user enters in the menu
    NULL

VARIABLES
    spaced,
    entries,        \* the entries created: a sequence of destinations
    table_head,     \* the entry first in the table, or NULL
    rt_next,        \* the next field of each entry
    chain,          \* the subscribers on the chain of each entry
    job,            \* what each thread has left to do: a sequence of destinations
    hand,           \* the entry and the head read that a thread has in hand, and
                    \* whether its own look-up found none (new_entry_created)
    told,           \* told[s]: the notifications that s has had, <<entry, version>>
    version,        \* how often each entry was updated
    entered,        \* how many updates the user has entered
    pc

vars == <<spaced, entries, table_head, rt_next, chain, job, hand, told, version, entered, pc>>

Publisher == 0
Threads == Subscribers \cup {Publisher}

\* The destinations that main's threads name; an entry is the number of its
\* allocation, at most one for each destination named or entered.
SubscriberJob == <<"122.1.1.1", "122.1.1.5">>
PublisherJob == <<"122.1.1.1", "122.1.1.2">>
Dests == {"122.1.1.1", "122.1.1.2", "122.1.1.5"}
MaxEntries == 2 * Cardinality(Threads) + Updates
Entries == 1..MaxEntries

Empty == [entry |-> NULL, head |-> NULL, new |-> FALSE]

Init ==
    /\ spaced \in BOOLEAN
    /\ entries = <<>>
    /\ table_head = NULL
    /\ rt_next = [e \in Entries |-> NULL]
    /\ chain = [e \in Entries |-> <<>>]
    /\ job = [t \in Threads |->
                IF ~spaced THEN <<"122.1.1.1">>     \* bound: all race for one destination
                ELSE IF t = Publisher THEN PublisherJob ELSE SubscriberJob]
    /\ hand = [t \in Threads |-> Empty]
    /\ told = [s \in Subscribers |-> {}]
    /\ version = [e \in Entries |-> 0]
    /\ entered = 0
    /\ pc = [t \in Threads |-> "lookup"]

-----------------------------------------------------------------------------

\* A thread whose turn it is: with the sleeps of main, that of the first that
\* is not through; the publisher is last.
Through(t) == job[t] = <<>>
MayRun(t) ==
    spaced => /\ \A s \in Subscribers : (s < t \/ t = Publisher) => Through(s)
Goto(t, place) == pc' = [pc EXCEPT ![t] = place]

\* The walk along the table from its head.
Reached ==
    LET f[i \in Entries] ==
            IF i = 1 THEN table_head ELSE IF f[i - 1] = NULL THEN NULL ELSE rt_next[f[i - 1]]
    IN  {f[i] : i \in Entries} \ {NULL}

\* rt_look_up_rt_entry: the entries of the destination that it may come upon.
Found(t) == {e \in Reached : entries[e] = Head(job[t])}

\* The look-up of rt_table_register_for_notification.  A subscriber that finds no
\* entry holds that it creates one, whatever the next look-up finds.
LookUp(s) ==
    /\ pc[s] = "lookup"
    /\ ~Through(s) /\ ~hand[s].new
    /\ \/ /\ \E e \in Found(s) : hand' = [hand EXCEPT ![s].entry = e]
          /\ Goto(s, "act")
       \/ /\ Found(s) = {}
          /\ hand' = [hand EXCEPT ![s].new = TRUE]
          /\ UNCHANGED pc
    /\ UNCHANGED <<spaced, entries, table_head, rt_next, chain, job, told, version, entered>>

\* rt_add_or_update_rt_entry, called by the publisher or by a subscriber that has
\* found none: it looks up once more, and creates an entry with its chain if need be.
AddOrUpdate(t) ==
    /\ pc[t] = "lookup"
    /\ ~Through(t) /\ (t = Publisher \/ hand[t].new)
    /\ \/ /\ \E e \in Found(t) : hand' = [hand EXCEPT ![t].entry = e]
          /\ Goto(t, "act")
          /\ UNCHANGED entries
       \/ /\ Found(t) = {}
          /\ entries' = Append(entries, Head(job[t]))
          /\ hand' = [hand EXCEPT ![t].entry = Len(entries')]
          /\ Goto(t, "readhead")
    /\ UNCHANGED <<spaced, table_head, rt_next, chain, job, told, version, entered>>

ReadHead(t) ==
    /\ pc[t] = "readhead"
    /\ hand' = [hand EXCEPT ![t].head = table_head]
    /\ Goto(t, "writehead")
    /\ UNCHANGED <<spaced, entries, table_head, rt_next, chain, job, told, version, entered>>

WriteHead(t) ==
    /\ pc[t] = "writehead"
    /\ table_head' = hand[t].entry
    /\ Goto(t, "link")
    /\ UNCHANGED <<spaced, entries, rt_next, chain, job, hand, told, version, entered>>

\* Only now the entry leads on to those before it.
Link(t) ==
    /\ pc[t] = "link"
    /\ rt_next' = [rt_next EXCEPT ![hand[t].entry] = hand[t].head]
    /\ hand' = [hand EXCEPT ![t].head = NULL]
    /\ Goto(t, "act")
    /\ UNCHANGED <<spaced, entries, table_head, chain, job, told, version, entered>>

-----------------------------------------------------------------------------
(* The publisher: nfc_invoke_notif_chain, with NFC_MOD *)

OnChain(e) == {chain[e][i] : i \in 1..Len(chain[e])}

\* The entry gets its data and its subscribers are called back.
Publish ==
    LET e == hand[Publisher].entry
    IN  /\ pc[Publisher] = "act"
        /\ version' = [version EXCEPT ![e] = @ + 1]
        /\ told' = [s \in Subscribers |->
                        told[s] \cup IF s \in OnChain(e) THEN {<<e, version'[e]>>} ELSE {}]
        /\ job' = [job EXCEPT ![Publisher] = Tail(@)]
        /\ hand' = [hand EXCEPT ![Publisher] = Empty]
        /\ Goto(Publisher, "lookup")
        /\ UNCHANGED <<spaced, entries, table_head, rt_next, chain, entered>>

\* main_menu: the user updates a destination.
Menu ==
    /\ pc[Publisher] = "lookup" /\ Through(Publisher)
    /\ spaced /\ entered < Updates
    /\ entered' = entered + 1
    /\ \E d \in Dests : job' = [job EXCEPT ![Publisher] = <<d>>]
    /\ UNCHANGED <<spaced, entries, table_head, rt_next, chain, hand, told, version, pc>>

-----------------------------------------------------------------------------
(* A subscriber: rt_table_register_for_notification *)

\* glthread_add_next on the chain reads its first element ...
ReadChain(s) ==
    /\ pc[s] = "act"
    /\ hand' = [hand EXCEPT ![s].head = chain[hand[s].entry]]
    /\ Goto(s, "register")
    /\ UNCHANGED <<spaced, entries, table_head, rt_next, chain, job, told, version, entered>>

\* ... and puts the subscriber before it.
Register(s) ==
    /\ pc[s] = "register"
    /\ chain' = [chain EXCEPT ![hand[s].entry] = <<s>> \o hand[s].head]
    /\ hand' = [hand EXCEPT ![s].head = NULL]
    /\ Goto(s, "registered")
    /\ UNCHANGED <<spaced, entries, table_head, rt_next, job, told, version, entered>>

\* Of an entry that it found itself the subscriber is told at once, with NFC_ADD.
TellNow(s) == ~hand[s].new

Registered(s) ==
    LET e == hand[s].entry
    IN  /\ pc[s] = "registered"
        /\ told' = IF TellNow(s) THEN [told EXCEPT ![s] = @ \cup {<<e, version[e]>>}] ELSE told
        /\ job' = [job EXCEPT ![s] = Tail(@)]
        /\ hand' = [hand EXCEPT ![s] = Empty]
        /\ Goto(s, "lookup")
        /\ UNCHANGED <<spaced, entries, table_head, rt_next, chain, version, entered>>

-----------------------------------------------------------------------------

Step(t) ==
    /\ MayRun(t)
    /\ \/ AddOrUpdate(t) \/ ReadHead(t) \/ WriteHead(t) \/ Link(t)
       \/ t = Publisher /\ (Publish \/ Menu)
       \/ t # Publisher /\ (LookUp(t) \/ ReadChain(t) \/ Register(t) \/ Registered(t))

\* The user enters nothing more.
Finished ==
    /\ \A t \in Threads : Through(t) /\ pc[t] = "lookup"
    /\ spaced => entered = Updates

Next == (\E t \in Threads : Step(t)) \/ (Finished /\ UNCHANGED vars)
Spec == Init /\ [][Next]_vars

-----------------------------------------------------------------------------
(* Properties *)

TypeOK ==
    /\ spaced \in BOOLEAN
    /\ Len(entries) \in 0..MaxEntries /\ \A e \in 1..Len(entries) : entries[e] \in Dests
    /\ table_head \in Entries \cup {NULL}
    /\ rt_next \in [Entries -> Entries \cup {NULL}]
    /\ \A e \in Entries : OnChain(e) \subseteq Subscribers
    /\ \A t \in Threads : Len(job[t]) <= 2
    /\ version \in [Entries -> 0..(Updates + 2)]
    /\ entered \in 0..Updates
    /\ pc \in [Threads -> {"lookup", "readhead", "writehead", "link", "act", "register", "registered"}]

AtRest(t) == pc[t] = "lookup"

\* When the sleeps of main keep the threads apart, the table has one entry for
\* a destination and reaches all of them.
TableExact ==
    spaced /\ (\A t \in Threads : AtRest(t)) =>
        /\ Reached = 1..Len(entries)
        /\ \A e, f \in 1..Len(entries) : entries[e] = entries[f] => e = f

\* Then whoever has registered for a destination is on its chain, and has been
\* told of the last update of its entry, whichever came first (the comments in
\* rt_table_register_for_notification).
Notified ==
    spaced /\ (\A t \in Threads : AtRest(t)) =>
        \A s \in Subscribers, i \in {1, 2} :
            Len(job[s]) < 3 - i =>
                \E e \in 1..Len(entries) :
                    /\ entries[e] = SubscriberJob[i]
                    /\ s \in OnChain(e)
                    /\ version[e] > 0 => <<e, version[e]>> \in told[s]

\* However the threads overlap, a walk along the table comes to an end: an
\* entry leads to the head read before it was put in.
WalksEnd ==
    LET later[n \in 0..MaxEntries] ==
            IF n = 0 THEN table_head
            ELSE IF later[n - 1] = NULL THEN NULL ELSE rt_next[later[n - 1]]
    IN  later[MaxEntries] = NULL
=============================================================================
