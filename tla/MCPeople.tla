------------------------------- MODULE MCPeople --------------------------------
(***************************************************************************)
(* The components around the people, for TLC: an agent's panel, inbox and  *)
(* skills, who is online, who hears live updates, what guests are granted, *)
(* the second factor, single sign-on, API tokens, the staff's access, the  *)
(* settings and the mail that comes in.  They share no state, so a         *)
(* behaviour runs one of them, `part`; its variables are v1, v2, ..., in   *)
(* their order, and those it has no use for are Off.                       *)
(***************************************************************************)
EXTENDS RoutePermissions, FiniteSets, TLC

CONSTANTS Off, Nil,
          r1, r2,              \* two requests, browsers, or tabs
          e1, e2,              \* two mail addresses
          ada, ben, customer, x, y

\* Those of Presence, LiveUpdates, GuestGrants and InboundMail, of which PeopleProofs takes any values.
CONSTANTS
  Requests, Emails, MaxFaults, MaxChanges,
  Customers, NoCustomer, SharedGuest, StaffUsers, OnlineWindow, Throttle, MaxTime,
  HostUsers, Requester, Sockets, UserOf, Guests, Visitors, Restricted, Assignee, Deliveries, MaxJoined,
  Tickets, Accounts, GuestUser, Answerer, SecretConfigured, Ttl, MaxClock, MaxReplies, MaxGrants,
  MaxMails

VARIABLES part, v1, v2, v3, v4, v5, v6, v7, v8, v9, v10, v11, v12

vars == <<part, v1, v2, v3, v4, v5, v6, v7, v8, v9, v10, v11, v12>>

-----------------------------------------------------------------------------
(* A ticket, its assignee ada, and ben who follows it. *)
Panel == INSTANCE AgentPanel WITH
  clock <- v1, assignee <- v2, replies <- v3, activity <- v4, marker <- v5, screen <- v6,
  feed <- v7, clicks <- v8, seen <- v9, readAt <- v10, since <- v11, failed <- v12,
  Agents <- {ada, ben}, Customer <- customer, Followers <- {ben}, MaxReplies <- 1, MaxClock <- 2, MaxClicks <- 2

(* A ticket of a signed-in customer, one of a known contact under the shared guest, one of a chat. *)
MCCustomers ==
  [order |-> [requester |-> "ann", contact |-> "none", person |-> "ann"],
   claim |-> [requester |-> "guest", contact |-> "bob@", person |-> "bob"],
   chat  |-> [requester |-> "guest", contact |-> "none", person |-> "visitor"]]
Online == INSTANCE Presence WITH
  now <- v1, lastSeenAt <- v2, seeing <- v3, lastRequest <- v4, slowest <- v5,
  Tickets <- Customers, Nobody <- NoCustomer, Staff <- StaffUsers, Window <- OnlineWindow, Tabs <- Requests,
  MaxClock <- MaxTime
ASSUME ThrottleIsTime == Online!ThrottleAssumption

(* An agent with a guest's token too, the customer, and a guest with both tokens, on a ticket *)
(* restricted to its department.                                                              *)
MCUserOf == <<"ada", "cleo", Nil>>
Live == INSTANCE LiveUpdates WITH
  role <- v1, member <- v2, granted <- v3, chatting <- v4, rooms <- v5, online <- v6,
  delivery <- v7, changes <- v8, faults <- v9,
  Users <- HostUsers, NoUser <- Nil
ASSUME SocketsHaveUsers == Live!LiveAssumption

(* Two tabs of ada's; a saved view; the ticket falls due when the clock ends. *)
Inbox == INSTANCE AgentInbox WITH
  clock <- v1, tickets <- v2, unread <- v3, views <- v4, cache <- v5, remembered <- v6, tab <- v7,
  changes <- v8, past <- v9,
  Tickets <- {1}, Agents <- {ada, ben}, Me <- ada, Tabs <- Requests, Links <- {"v1"}, SavedViews <- {"v1"},
  ViewFilters <- {[status |-> "resolved"]}, DueAt <- <<1>>, Soon <- 1, CacheSeconds <- 1, Nothing <- Nil,
  MaxClock <- 1, MaxChanges <- 1
ASSUME Inbox!InboxAssumption

(* A ticket, a mailbox that owns it and another, the key made by the process. *)
Grants == INSTANCE GuestGrants WITH
  clock <- v1, process <- v2, policy <- v3, row <- v4, contact <- v5, replies <- v6,
  ratings <- v7, grants <- v8, req <- v9, faults <- v10, changes <- v11,
  Users <- Accounts, Staff <- Answerer, None <- Nil
ASSUME GuestsAreNoUsers == Grants!GrantsAssumption

Roster == INSTANCE AgentRoster WITH
  profile <- v1, capacity <- v2, assigned <- v3, skill <- v4, rows <- v5, req <- v6, saves <- v7,
  faults <- v8, may <- v9,
  Users <- {"u"}, Skills <- {x, y}, Nothing <- Nil, MaxSaves <- 3, MaxTickets <- 1,
  MaxFaults <- 1

(* Two browsers of somebody who enrolled before the table existed. *)
Codes == INSTANCE TwoFactor WITH
  enrolment <- v1, profile <- v2, passed <- v3, req <- v4, clock <- v5, ids <- v6, wanted <- v7,
  used <- v8, again <- v9, lost <- v10, crossed <- v11, requests <- v12,
  Browsers <- Requests, Codes <- {x, y}, Legacy <- TRUE, MaxStep <- 2, MaxRequests <- 4
ASSUME Codes!LegacyAssumption /\ Codes!CodesAssumption

(* Two answers to one request, one to none, a response signed around its assertion, a JWT and *)
(* an OAuth identity of somebody unknown.                                                     *)
Saml(id, user, answers) ==
  [kind |-> "saml", id |-> id, user |-> user, role |-> "agent", answers |-> answers,
   signed |-> "assertion", issuer |-> "idp", audiences |-> {"us"}, recipient |-> "acs",
   from |-> 0, until |-> 1, confirmedUntil |-> 2]
Messages ==
  {Saml(11, "ann", 1), Saml(12, "ann", 1), Saml(13, "ann", 0),
   [Saml(14, "bob", 1) EXCEPT !.signed = "response"],
   [kind |-> "jwt", id |-> 15, user |-> "ann", role |-> "boss", answers |-> 0,
    signed |-> "key", audiences |-> {"us", "them"}, from |-> 1, until |-> 2],
   [kind |-> "oauth", id |-> 16, user |-> "bob", role |-> "agent", answers |-> 0]}
SignOn == INSTANCE SingleSignOn WITH
  provider <- v1, ids <- v2, users <- v3, role <- v4, session <- v5, call <- v6, issued <- v7,
  now <- v8, signIns <- v9,
  Browsers <- Requests, Messages <- Messages, Known <- {"ann"}, Creates <- TRUE, Unsolicited <- TRUE,
  Roles <- {"agent"}, Skew <- 1, RequestTtl <- 2, MaxTime <- 4, MaxRequests <- 1
ASSUME SignOn!SkewAssumption

(* Mail of two customers. *)
Mail == INSTANCE InboundMail WITH
  replySecret <- v1, contact <- v2, tickets <- v3, replies <- v4, mails <- v5, work <- v6,
  sent <- v7, faults <- v8, hit <- v9,
  Addresses <- Emails

(* Two users of the staff areas, and a role the admins made. *)
Access == INSTANCE StaffAccess WITH
  roles <- v1, roleOf <- v2, asked <- v3, change <- v4, edited <- v5, crossed <- v6, changes <- v7,
  Staff <- {r1, r2}, Custom <- {<<"role", "manage">>}, MaxChanges <- 3,
  Mounts <- {<<"escalated", "admin">>, <<"admin", "support">>}

(* A token, a client and an admin. *)
Tokens == INSTANCE ApiTokens WITH
  clock <- v1, token <- v2, agents <- v3, req <- v4, asked <- v5, revoked <- v6,
  Tokens <- {1}, Users <- {7}, None <- Nil, MaxClock <- 2, MaxAsked <- 3

(* Two admins save. *)
Saved == INSTANCE Settings WITH
  rows <- v1, req <- v2, audit <- v3, book <- v4, meant <- v5, asked <- v6, faults <- v7,
  None <- Nil, MaxAsked <- 2, MaxFaults <- 1

-----------------------------------------------------------------------------
Alike == Permutations({r1, r2}) \cup Permutations({e1, e2}) \cup Permutations({x, y})

Init ==
  \/ part = "panel" /\ Panel!Init
  \/ part = "presence" /\ Online!PresenceInit /\ v6 = Off /\ v7 = Off /\ v8 = Off /\ v9 = Off /\ v10 = Off /\ v11 = Off /\ v12 = Off
  \/ part = "live" /\ Live!Init /\ v10 = Off /\ v11 = Off /\ v12 = Off
  \/ part = "inbox" /\ Inbox!Init /\ v10 = Off /\ v11 = Off /\ v12 = Off
  \/ part = "grants" /\ Grants!Init /\ v12 = Off
  \/ part = "roster" /\ Roster!Init /\ v10 = Off /\ v11 = Off /\ v12 = Off
  \/ part = "codes" /\ Codes!Init
  \/ part = "sso" /\ SignOn!Init /\ v10 = Off /\ v11 = Off /\ v12 = Off
  \/ part = "mail" /\ Mail!Init /\ v10 = Off /\ v11 = Off /\ v12 = Off
  \/ part = "access" /\ Access!Init /\ v8 = Off /\ v9 = Off /\ v10 = Off /\ v11 = Off /\ v12 = Off
  \/ part = "tokens" /\ Tokens!Init /\ v7 = Off /\ v8 = Off /\ v9 = Off /\ v10 = Off /\ v11 = Off /\ v12 = Off
  \/ part = "settings" /\ Saved!Init /\ v8 = Off /\ v9 = Off /\ v10 = Off /\ v11 = Off /\ v12 = Off
Next ==
  \/ part = "panel" /\ Panel!Next /\ UNCHANGED <<part>>
  \/ part = "presence" /\ Online!PresenceNext /\ UNCHANGED <<part, v6, v7, v8, v9, v10, v11, v12>>
  \/ part = "live" /\ Live!Next /\ UNCHANGED <<part, v10, v11, v12>>
  \/ part = "inbox" /\ Inbox!Next /\ UNCHANGED <<part, v10, v11, v12>>
  \/ part = "grants" /\ Grants!Next /\ UNCHANGED <<part, v12>>
  \/ part = "roster" /\ Roster!Next /\ UNCHANGED <<part, v10, v11, v12>>
  \/ part = "codes" /\ Codes!Next /\ UNCHANGED <<part>>
  \/ part = "sso" /\ SignOn!Next /\ UNCHANGED <<part, v10, v11, v12>>
  \/ part = "mail" /\ Mail!Next /\ UNCHANGED <<part, v10, v11, v12>>
  \/ part = "access" /\ Access!Next /\ UNCHANGED <<part, v8, v9, v10, v11, v12>>
  \/ part = "tokens" /\ Tokens!Next /\ UNCHANGED <<part, v7, v8, v9, v10, v11, v12>>
  \/ part = "settings" /\ Saved!Next /\ UNCHANGED <<part, v8, v9, v10, v11, v12>>

Spec == Init /\ [][Next]_vars

-----------------------------------------------------------------------------
\* Every variable of the component that runs has its type.
TypeOK ==
  /\ part = "panel"    => Panel!TypeOK
  /\ part = "presence" => Online!PresenceTypeOK
  /\ part = "live"     => Live!TypeOK
  /\ part = "inbox"    => Inbox!TypeOK
  /\ part = "grants"   => Grants!TypeOK
  /\ part = "roster"   => Roster!TypeOK
  /\ part = "codes"    => Codes!TypeOK
  /\ part = "sso"      => SignOn!TypeOK
  /\ part = "mail"     => Mail!TypeOK
  /\ part = "access"   => Access!TypeOK
  /\ part = "tokens"   => Tokens!TypeOK
  /\ part = "settings" => Saved!TypeOK

\* What an agent's screen shows is so: an unread mark for what they have not seen, a notice
\* for the assignee, counts no older than the cache, skills as last saved, who is online,
\* settings as somebody meant them, and in the audit log what was done.
ScreenLaw ==
  /\ part = "panel"    => Panel!UnseenIsUnread /\ Panel!AssigneeHears
  /\ part = "inbox"    => Inbox!CountsAreRecent
  /\ part = "roster"   => Roster!LaterSaveWins
  /\ part = "presence" => Online!OnlineIsThem
  /\ part = "settings" => Saved!ReadAsMeant /\ Saved!WrongWritesNothing /\ Saved!AuditedIsDone

\* An update reaches no socket whose owner may not read the ticket, and a guest does nothing
\* to a ticket but what their mailbox was proven for.
AudienceLaw ==
  /\ part = "live"   => Live!HeardByThoseWhoMay
  /\ part = "grants" => Grants!ActsAsProven

\* Mail ends where it belongs: a reply is by somebody of the ticket, a mail is filed once,
\* what we send does not come back as mail, an automatic answer opens no ticket.
MailLaw ==
  part = "mail" => Mail!RepliesAreRequesters /\ Mail!FiledOnce /\ Mail!NoEcho /\ Mail!AutoStaysOnTicket

\* A code and an assertion sign in once, a token lets in only while it is good, the second
\* factor is as it was last set, somebody can always manage roles, and each route asks for the
\* permission of its own page, and every named route is served wherever the admin is mounted.
AccessLaw ==
  /\ part = "codes"  => Codes!CodeWorksOnce /\ Codes!AsLastSet
  /\ part = "sso"    => SignOn!SignsInOnce
  /\ part = "tokens" => Tokens!LetInRightly /\ Tokens!RevokedForGood
  /\ part = "access" => Access!SomebodyManages /\ Access!EntryIsReached /\ Access!FormIsHeard
                         /\ Access!NamedRouteServes

\* A slow request never takes a customer back to an earlier time.
SeenOnlyForward == [][part = "presence" => Online!SeenForward]_vars
================================================================================
