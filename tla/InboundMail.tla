------------------------------ MODULE InboundMail ------------------------------
(***************************************************************************)
(* Email in and out: the provider's webhook, the router that finds the     *)
(* ticket a mail answers and files it, contacts made for new senders, and  *)
(* the mails the listener sends, which threads and autoresponders answer.  *)
(***************************************************************************)
EXTENDS Naturals, Sequences, FiniteSets

CONSTANTS
  Addresses,   \* customers' addresses
  MaxMails,    \* bound on inbound mails
  MaxFaults    \* bound on crashes, failed writes and promotions

VARIABLES
  replySecret,  \* whether a reply secret is configured
  contact,      \* address |-> NoContact, or the user it is linked to (0: none)
  tickets,      \* in order of their ids
  replies,      \* replies filed, each once for each time it was
  mails,        \* inbound mails, with what the provider knows of each
  work,         \* mail |-> where its delivery is
  sent,         \* mails sent to customers
  faults,
  hit           \* history: mails that met a fault or a rival sender

vars == <<replySecret, contact, tickets, replies, mails, work, sent, faults, hit>>

NoContact == 99
NoTicket  == 0
Agent     == 50  \* an agent's user; customers' are 0, none, and 7
Created   == 51
Mail      == DOMAIN mails
Resting   == [at |-> "none"]

-----------------------------------------------------------------------------
(* Outbound: EmailListener and EmailService. *)

\* Mail on ticket t to its contact; `cause` is a ticket's creation or a reply's author.
Send(t, cause) == sent' = sent \cup {[to |-> tickets'[t].contact, ticket |-> t, cause |-> cause]}

\* Mutant: who wrote it is not looked at.
MailsEverybody(t, author, requester) == Send(t, author)

\* A reply is mailed to the ticket's contact, but for the requester's own.
onReplyCreated(t, author, requester) ==
  IF author = requester THEN UNCHANGED sent ELSE Send(t, author)

-----------------------------------------------------------------------------
(* Routing. *)

\* Mutant: without a secret nothing threads.
SignedOnly(m) == IF replySecret /\ mails[m].signed \in DOMAIN tickets THEN mails[m].signed ELSE NoTicket

\* With a secret only the signed envelope identifies a ticket; without, the threading
\* headers, then the subject. `thread` and `signed` are what the customer's client kept.
resolveTicket(m) ==
  LET t == IF replySecret THEN mails[m].signed ELSE mails[m].thread
  IN IF t \in DOMAIN tickets THEN t ELSE NoTicket

\* Mutant: whoever wrote before may answer a ticket's mail.
AnyoneKnown(t, from) == contact[from] # NoContact

\* The ticket's contact, or a contact linked to its requester.
isFromRequester(t, from) ==
  /\ contact[from] # NoContact
  /\ tickets[t].contact = from \/ (contact[from] # 0 /\ contact[from] = tickets[t].requester)

\* History only: whose ticket it is.
Owns(a, t) == a = tickets[t].contact \/ tickets[t].requester \in {contact[a]} \ {0}

Received(m, r) == work' = [work EXCEPT ![m] = r]

\* The webhook's secret is checked, the provider's payload parsed; one the parser refuses
\* is an error to the provider, which sends it again.
receive(m) ==
  /\ work[m] = Resting /\ ~mails[m].answered
  /\ Received(m, [at |-> IF mails[m].from = "" THEN "log" ELSE "resolve", ticket |-> NoTicket,
                  requester |-> 0])
  /\ UNCHANGED <<replySecret, contact, tickets, replies, mails, sent, faults, hit>>

\* The ticket is read, and who its requester is.
route(m) ==
  LET t == resolveTicket(m) IN
  /\ work[m].at = "resolve"
  /\ Received(m, IF t = NoTicket THEN [work[m] EXCEPT !.at = "contact"]
                 ELSE [work[m] EXCEPT !.at = "sender", !.ticket = t, !.requester = tickets[t].requester])
  /\ UNCHANGED <<replySecret, contact, tickets, replies, mails, sent, faults, hit>>

\* Mutant: a mail that matches a ticket but not its requester goes nowhere.
DropsStrangers(m) ==
  LET t == work[m].ticket IN
  /\ work[m].at = "sender"
  /\ Received(m, [work[m] EXCEPT !.at = IF isFromRequester(t, mails[m].from) THEN "reply" ELSE "log"])
  /\ UNCHANGED <<replySecret, contact, tickets, replies, mails, sent, faults, hit>>

checkSender(m) ==
  LET t == work[m].ticket IN
  /\ work[m].at = "sender"
  /\ Received(m, [work[m] EXCEPT !.at = IF isFromRequester(t, mails[m].from) THEN "reply" ELSE "contact"])
  /\ UNCHANGED <<replySecret, contact, tickets, replies, mails, sent, faults, hit>>

\* The reply, as the requester who was read with the ticket.
addReply(m) ==
  LET t == work[m].ticket IN
  /\ work[m].at = "reply"
  /\ replies' = Append(replies, [ticket |-> t, by |-> "mail", of |-> m, rightful |-> Owns(mails[m].from, t)])
  /\ tickets' = tickets
  /\ onReplyCreated(t, work[m].requester, tickets[t].requester)
  /\ Received(m, [work[m] EXCEPT !.at = "log"])
  /\ UNCHANGED <<replySecret, contact, mails, faults, hit>>

\* findOrCreateByEmail reads the address ...
findContact(m) ==
  /\ work[m].at = "contact"
  /\ Received(m, [work[m] EXCEPT !.at = IF contact[mails[m].from] = NoContact THEN "insert" ELSE "create"])
  /\ UNCHANGED <<replySecret, contact, tickets, replies, mails, sent, faults, hit>>

\* ... and inserts it: the second insert of one address is refused, and caught.
insertContact(m) ==
  LET from == mails[m].from IN
  /\ work[m].at = "insert"
  /\ IF contact[from] = NoContact
     THEN /\ contact' = [contact EXCEPT ![from] = 0]
          /\ Received(m, [work[m] EXCEPT !.at = "create"])
          /\ UNCHANGED hit
     ELSE /\ Received(m, [work[m] EXCEPT !.at = "log"])
          /\ hit' = hit \cup {m}
          /\ UNCHANGED contact
  /\ UNCHANGED <<replySecret, tickets, replies, mails, sent, faults>>

\* The ticket of no user, and its confirmation.
createTicket(m) ==
  /\ work[m].at = "create"
  /\ tickets' = Append(tickets, [contact |-> mails[m].from, requester |-> 0, of |-> m])
  /\ Send(Len(tickets'), Created)
  /\ Received(m, [work[m] EXCEPT !.at = "log"])
  /\ UNCHANGED <<replySecret, contact, replies, mails, faults, hit>>

\* A write of the router's fails: caught, logged, and answered.
WriteFails(m) ==
  /\ work[m].at \in {"reply", "insert", "create"} /\ faults < MaxFaults
  /\ Received(m, [work[m] EXCEPT !.at = "log"])
  /\ faults' = faults + 1 /\ hit' = hit \cup {m}
  /\ UNCHANGED <<replySecret, contact, tickets, replies, mails, sent>>

\* The log row is saved and the provider answered: it will not send the mail again,
\* whatever the outcome.
logAndAnswer(m) ==
  /\ work[m].at = "log"
  /\ mails' = [mails EXCEPT ![m].answered = TRUE]
  /\ Received(m, Resting)
  /\ UNCHANGED <<replySecret, contact, tickets, replies, sent, faults, hit>>

\* The process dies, or the log row cannot be saved: the provider sends the mail again.
Redelivered(m) ==
  /\ work[m] # Resting /\ faults < MaxFaults
  /\ Received(m, Resting)
  /\ faults' = faults + 1 /\ hit' = hit \cup {m}
  /\ UNCHANGED <<replySecret, contact, tickets, replies, mails, sent>>

-----------------------------------------------------------------------------
(* Customers, agents and accounts. *)

\* A mail, new or in answer to one sent; the client may lose what threads it.
CustomerWrites(from, answering, auto) ==
  /\ Len(mails) < MaxMails
  /\ Cardinality({m \in Mail : ~mails[m].answered}) < 2
  /\ \E kept \in BOOLEAN :
       /\ auto => kept
       /\ LET t == IF answering = NoTicket \/ ~kept THEN NoTicket ELSE answering
          IN mails' = Append(mails, [from |-> from, thread |-> t, signed |-> t, auto |-> auto, answered |-> FALSE])
  /\ work' = Append(work, Resting)
  /\ UNCHANGED <<replySecret, contact, tickets, replies, sent, faults, hit>>

\* An autoresponder answers a mail we sent, keeping its headers; once each.
AutoAnswers(s) ==
  /\ ~\E m \in Mail : mails[m].auto /\ mails[m].thread = s.ticket
  /\ CustomerWrites(s.to, s.ticket, TRUE)

\* An agent replies on the ticket; one reply of theirs per ticket is enough.
AgentReplies(t) ==
  /\ \A i \in DOMAIN replies : ~(replies[i].by = "agent" /\ replies[i].ticket = t)
  /\ Len(mails) > 0
  /\ replies' = Append(replies, [ticket |-> t, by |-> "agent", of |-> 0, rightful |-> TRUE])
  /\ tickets' = tickets
  /\ onReplyCreated(t, Agent, tickets[t].requester)
  /\ UNCHANGED <<replySecret, contact, mails, work, faults, hit>>

\* promoteToUser: the guest gets an account, and their tickets with it.
promoteToUser(a) ==
  /\ contact[a] = 0 /\ faults < MaxFaults
  /\ contact' = [contact EXCEPT ![a] = 7]
  /\ tickets' = [t \in DOMAIN tickets |-> IF tickets[t].contact = a THEN [tickets[t] EXCEPT !.requester = 7] ELSE tickets[t]]
  /\ faults' = faults + 1
  /\ hit' = hit \cup {m \in Mail : work[m] # Resting}
  /\ UNCHANGED <<replySecret, replies, mails, work, sent>>

Init ==
  /\ replySecret \in BOOLEAN
  /\ contact = [a \in Addresses |-> NoContact]
  /\ tickets = <<>> /\ replies = <<>> /\ mails = <<>> /\ work = <<>> /\ sent = {}
  /\ faults = 0 /\ hit = {}

Deliver(m) ==
  \/ receive(m) \/ route(m) \/ checkSender(m) \/ addReply(m) \/ findContact(m)
  \/ insertContact(m) \/ createTicket(m) \/ logAndAnswer(m)

Next ==
  \/ \E m \in Mail : Deliver(m) \/ WriteFails(m) \/ Redelivered(m)
  \/ \E a \in Addresses, t \in {NoTicket} \cup DOMAIN tickets : CustomerWrites(a, t, FALSE)
  \/ CustomerWrites("", NoTicket, FALSE)
  \/ \E s \in sent : AutoAnswers(s)
  \/ \E t \in DOMAIN tickets : AgentReplies(t)
  \/ \E a \in Addresses : promoteToUser(a)

Spec == Init /\ [][Next]_vars

-----------------------------------------------------------------------------
Filed(m) == Cardinality({i \in DOMAIN replies : replies[i].of = m})
            + Cardinality({t \in DOMAIN tickets : tickets[t].of = m})

\* Contacts, tickets and deliveries have one of their states.
TypeOK ==
  /\ contact \in [Addresses -> {NoContact, 0, 7}]
  /\ \A t \in DOMAIN tickets : tickets[t].contact \in Addresses /\ tickets[t].requester \in {0, 7}
  /\ Len(work) = Len(mails) /\ hit \subseteq Mail

\* A mail becomes a reply only on a ticket of its sender's: quoting a reference number, or
\* answering a forwarded mail, never adds to someone else's ticket.
RepliesAreRequesters == \A i \in DOMAIN replies : replies[i].rightful

\* A mail the provider was told is received was filed, once: as a reply or as a ticket.
\* Only a fault, or another first mail of the same sender's at once, loses or repeats it.
FiledOnce == \A m \in {n \in Mail \ hit : mails[n].from # ""} : Filed(m) <= 1 /\ (mails[m].answered => Filed(m) = 1)

\* "Mailing customers their own replies risks a loop with an autoresponder": a reply made
\* from mail is not mailed back, unless the sender's account came between two reads.
NoEcho == hit = {} => \A s \in sent : s.cause \in {Created, Agent}

\* Automatic answers that keep their headers open no tickets.
AutoStaysOnTicket ==
  \A t \in DOMAIN tickets : tickets[t].of \notin hit => ~mails[tickets[t].of].auto

-----------------------------------------------------------------------------
(* Why they hold: the tables and deliveries have their shapes, a delivery is where what was    *)
(* filed of its mail says, and an automatic answer threads onto a ticket of its sender's.      *)

Row == [contact : Addresses, requester : {0, 7}, of : Nat]
Post == [ticket : Nat, by : {"mail", "agent"}, of : Nat, rightful : BOOLEAN]
Message == [from : Addresses \cup {""}, thread : Nat, signed : Nat, auto : BOOLEAN, answered : BOOLEAN]
Delivery == [at : {"log", "resolve", "sender", "reply", "contact", "insert", "create"},
             ticket : Nat, requester : {0, 7}]

Shapes ==
  /\ contact \in [Addresses -> {NoContact, 0, 7}]
  /\ tickets \in Seq(Row) /\ replies \in Seq(Post) /\ mails \in Seq(Message)
  /\ work \in Seq({Resting} \cup Delivery) /\ Len(work) = Len(mails)
  /\ \A t \in DOMAIN tickets : tickets[t].of \in 1 .. Len(mails) /\ contact[tickets[t].contact] # NoContact
  /\ \A i \in DOMAIN replies : replies[i].of \in 0 .. Len(mails)
  /\ \A s \in sent : s.ticket \in DOMAIN tickets /\ s.to = tickets[s.ticket].contact

\* A delivery that has found its ticket, and what it knows of the ticket's requester.
Routed(m) ==
  work[m].at \in {"sender", "reply"} =>
    /\ work[m].ticket \in DOMAIN tickets
    /\ m \notin hit => work[m].requester = tickets[work[m].ticket].requester
    /\ mails[m].auto => work[m].ticket = mails[m].thread
    /\ work[m].at = "reply" => Owns(mails[m].from, work[m].ticket)
Known(m) ==
  /\ work[m] # Resting /\ work[m].at # "log" => mails[m].from \in Addresses
  /\ work[m].at = "create" => contact[mails[m].from] # NoContact
Counted(m) ==
  m \notin hit /\ mails[m].from # "" =>
    IF work[m] = Resting THEN Filed(m) = IF mails[m].answered THEN 1 ELSE 0
    ELSE ~mails[m].answered /\ Filed(m) = IF work[m].at = "log" THEN 1 ELSE 0
Automatic(m) ==
  mails[m].auto =>
    /\ mails[m].from \in Addresses /\ mails[m].signed = mails[m].thread
    /\ mails[m].thread \in DOMAIN tickets /\ tickets[mails[m].thread].contact = mails[m].from
    /\ work[m].at \notin {"contact", "insert", "create"}

IInv ==
  /\ Shapes /\ RepliesAreRequesters /\ NoEcho /\ AutoStaysOnTicket
  /\ \A m \in Mail : Routed(m) /\ Known(m) /\ Counted(m) /\ Automatic(m)
================================================================================
