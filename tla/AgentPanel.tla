------------------------------- MODULE AgentPanel -------------------------------
(***************************************************************************)
(* One ticket on the agents' screens: the replies on it, each agent's read *)
(* marker and the unread flag it gives, and the notifications agents get   *)
(* of assignments, replies and mentions.                                   *)
(***************************************************************************)
EXTENDS Naturals, FiniteSets

CONSTANTS
  Agents,     \* agents; one of them is the ticket's assignee
  Customer,   \* the ticket's requester
  Followers,  \* those who follow the ticket
  MaxReplies, \* bound on replies and notes
  MaxClock,   \* bound on the clock
  MaxClicks   \* bound on what agents do

VARIABLES
  clock,
  assignee,
  replies,    \* reply |-> where its handler is, from whom, and whom it mentions
  activity,   \* lastCustomerActivityAt, Never for null
  marker,     \* agent |-> NoMarker, Unread or when it was last read
  screen,     \* agent |-> where an opening of the ticket is
  feed,       \* agent |-> notifications: type, reply and whether read
  clicks,
  seen,       \* history: agent |-> the replies on a screen of theirs
  readAt,     \* history: agent |-> when the ticket was last marked
  since,      \* history: agent |-> replies whose handler began before they were assigned
  failed      \* history: replies a notification of which failed

vars == <<clock, assignee, replies, activity, marker, screen, feed, clicks,
          seen, readAt, since, failed>>

Never    == 0
NoMarker == 100
Unread   == 99
Away     == [at |-> "away"]
Reply    == DOMAIN replies
Saved    == {r \in Reply : replies[r].at # "save"}
NewReply == Cardinality(Reply) + 1

-----------------------------------------------------------------------------
(* Replies and who is told of them. *)

\* The reply's handler reads the ticket first: its assignee then is who is told.
CreateReply(by, mentioned) ==
  /\ Cardinality(Reply) < MaxReplies
  /\ replies' = [r \in Reply \cup {NewReply} |->
       IF r \in Reply THEN replies[r]
       ELSE [at |-> "save", by |-> by, assignee |-> assignee, tell |-> {}, mentioned |-> mentioned]]
  /\ UNCHANGED <<clock, assignee, activity, marker, screen, feed, clicks, seen, readAt, since, failed>>

saveReply(r) ==
  /\ replies[r].at = "save"
  /\ replies' = [replies EXCEPT ![r].at = IF replies[r].by = Customer THEN "activity" ELSE "emit"]
  /\ UNCHANGED <<clock, assignee, activity, marker, screen, feed, clicks, seen, readAt, since, failed>>

\* Mutant: when the reply was written stands for when it was saved.
ActivityOnCreation(r) ==
  /\ replies[r].at = "activity"
  /\ activity' = IF activity = Never THEN clock ELSE activity
  /\ replies' = [replies EXCEPT ![r].at = "emit"]
  /\ UNCHANGED <<clock, assignee, marker, screen, feed, clicks, seen, readAt, since, failed>>

\* A customer-side reply is unread activity.
touchActivity(r) ==
  /\ replies[r].at = "activity"
  /\ activity' = clock
  /\ replies' = [replies EXCEPT ![r].at = "emit"]
  /\ UNCHANGED <<clock, assignee, marker, screen, feed, clicks, seen, readAt, since, failed>>

\* Mutant: the followers only.
FollowersOnly(r) == IF replies[r].by = Customer THEN Followers ELSE replies[r].mentioned \ {replies[r].by}

\* A customer's reply: the assignee and the followers. An agent's: whom it mentions, but them.
recipients(r) ==
  IF replies[r].by = Customer THEN Followers \cup {replies[r].assignee} ELSE replies[r].mentioned \ {replies[r].by}

emitReply(r) ==
  /\ replies[r].at = "emit"
  /\ replies' = [replies EXCEPT ![r].at = "notify", ![r].tell = recipients(r)]
  /\ UNCHANGED <<clock, assignee, activity, marker, screen, feed, clicks, seen, readAt, since, failed>>

Notice(type, r) == [type |-> type, reply |-> r, read |-> FALSE]

\* One row after another.
notify(r) ==
  /\ replies[r].at = "notify"
  /\ IF replies[r].tell = {} THEN replies' = [replies EXCEPT ![r].at = "done"] /\ UNCHANGED feed
     ELSE \E a \in replies[r].tell :
            /\ feed' = [feed EXCEPT ![a] = @ \cup {Notice(IF replies[r].by = Customer THEN "ticket_reply" ELSE "mention", r)}]
            /\ replies' = [replies EXCEPT ![r].tell = @ \ {a}]
  /\ UNCHANGED <<clock, assignee, activity, marker, screen, clicks, seen, readAt, since, failed>>

\* A row that cannot be saved ends the loop: the rest of the recipients are not told.
NotifyFails(r) ==
  /\ replies[r].at = "notify" /\ replies[r].tell # {} /\ failed = {}
  /\ replies' = [replies EXCEPT ![r].at = "done", ![r].tell = {}]
  /\ failed' = {r}
  /\ UNCHANGED <<clock, assignee, activity, marker, screen, feed, clicks, seen, readAt, since>>

\* An agent is told of being assigned, unless they did it.
assigned(by, a) ==
  /\ clicks < MaxClicks /\ clicks' = clicks + 1 /\ assignee # a
  /\ assignee' = a
  /\ feed' = IF by = a THEN feed ELSE [feed EXCEPT ![a] = @ \cup {Notice("ticket_assigned", 0)}]
  /\ since' = [since EXCEPT ![a] = Reply]
  /\ UNCHANGED <<clock, replies, activity, marker, screen, seen, readAt, failed>>

\* One, and all.
markNotificationsRead(a) ==
  /\ clicks < MaxClicks /\ clicks' = clicks + 1
  /\ \/ \E n \in feed[a] : ~n.read /\ feed' = [feed EXCEPT ![a] = (@ \ {n}) \cup {[n EXCEPT !.read = TRUE]}]
     \/ feed[a] # {} /\ feed' = [feed EXCEPT ![a] = {[n EXCEPT !.read = TRUE] : n \in @}]
  /\ UNCHANGED <<clock, assignee, replies, activity, marker, screen, seen, readAt, since, failed>>

-----------------------------------------------------------------------------
(* Read markers. *)

isUnread(a) ==
  CASE marker[a] = Unread   -> TRUE
    [] activity = Never     -> FALSE
    [] marker[a] = NoMarker -> TRUE
    [] OTHER                -> activity > marker[a]

\* Opening the ticket: it is marked with the time taken now, then its replies are read.
openTicket(a) ==
  /\ screen[a] = Away /\ clicks < MaxClicks /\ clicks' = clicks + 1
  /\ screen' = [screen EXCEPT ![a] = [at |-> "mark", time |-> clock]]
  /\ UNCHANGED <<clock, assignee, replies, activity, marker, feed, seen, readAt, since, failed>>

\* update; without a row, insert; refused, for another tab was faster, update again.
markRead(a) ==
  /\ screen[a] # Away /\ screen[a].at = "mark"
  /\ marker' = [marker EXCEPT ![a] = screen[a].time]
  /\ readAt' = [readAt EXCEPT ![a] = screen[a].time]
  /\ screen' = [screen EXCEPT ![a].at = "show"]
  /\ UNCHANGED <<clock, assignee, replies, activity, feed, clicks, seen, since, failed>>

showTicket(a) ==
  /\ screen[a] # Away /\ screen[a].at = "show"
  /\ seen' = [seen EXCEPT ![a] = Saved]
  /\ screen' = [screen EXCEPT ![a] = Away]
  /\ UNCHANGED <<clock, assignee, replies, activity, marker, feed, clicks, readAt, since, failed>>

markUnread(a) ==
  /\ clicks < MaxClicks /\ clicks' = clicks + 1
  /\ marker' = [marker EXCEPT ![a] = Unread]
  /\ UNCHANGED <<clock, assignee, replies, activity, screen, feed, seen, readAt, since, failed>>

-----------------------------------------------------------------------------
Tick ==
  /\ clock < MaxClock /\ clock' = clock + 1
  /\ UNCHANGED <<assignee, replies, activity, marker, screen, feed, clicks, seen, readAt, since, failed>>

Init ==
  /\ clock = 1 /\ assignee \in Agents /\ replies = [r \in {} |-> 0]
  /\ activity \in {Never, 1} /\ marker = [a \in Agents |-> NoMarker]
  /\ screen = [a \in Agents |-> Away] /\ feed = [a \in Agents |-> {}]
  /\ clicks = 0
  /\ seen = [a \in Agents |-> {}] /\ readAt = [a \in Agents |-> Never]
  /\ since = [a \in Agents |-> {}] /\ failed = {}

Next ==
  \/ CreateReply(Customer, {}) \/ \E a, b \in Agents : CreateReply(a, {b})
  \/ \E r \in Reply : saveReply(r) \/ touchActivity(r) \/ emitReply(r) \/ notify(r) \/ NotifyFails(r)
  \/ \E a \in Agents : \/ \E by \in Agents : assigned(by, a)
                       \/ markNotificationsRead(a) \/ openTicket(a) \/ markRead(a)
                       \/ showTicket(a) \/ markUnread(a)
  \/ Tick

Spec == Init /\ [][Next]_vars

-----------------------------------------------------------------------------
\* Markers, screens and notifications have one of their states.
TypeOK ==
  /\ marker \in [Agents -> {NoMarker, Unread} \cup 1..MaxClock]
  /\ \A a \in Agents : \A n \in feed[a] : n.type \in {"ticket_assigned", "ticket_reply", "mention"}
  /\ activity \in Never..MaxClock

\* A customer's reply that has been saved and is on no screen of an agent's leaves the
\* ticket unread for them, however their opening of it and the reply's handler interleave;
\* but one that came within the instant the ticket was marked at is taken as read.
UnseenIsUnread ==
  \A a \in Agents : screen[a] = Away /\ activity # readAt[a] =>
    ((\E r \in Reply : replies[r].by = Customer /\ replies[r].at \in {"emit", "notify", "done"} /\ r \notin seen[a])
       => isUnread(a))

\* Once a customer's reply is handled, the assignee has a notification of it, unless they
\* took the ticket over meanwhile or a row could not be saved: recipients are those of the
\* ticket as it was read first.
AssigneeHears ==
  \A r \in Reply \ failed :
    replies[r].by = Customer /\ replies[r].at = "done" =>
      r \in since[assignee] \/ \E n \in feed[assignee] : n.type = "ticket_reply" /\ n.reply = r
================================================================================
