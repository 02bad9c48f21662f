-------------------------- MODULE ContactRequests ---------------------------
(***************************************************************************)
(* Contact requests between the owners of proxies                          *)
(* (handlers/contact_request.rs), and the MCP tool that creates them       *)
(* (mcp/server.rs, create_contact_request).                                *)
(*                                                                         *)
(* Both creators write one row per recipient in a loop of queries, holding *)
(* the connection all the while; the process or the client may go away     *)
(* between two of them.  `sending` is such a loop.                         *)
(***************************************************************************)
EXTENDS PersonHandlers, Sequences

CONSTANTS
    ContactIds,     \* ids of merge_contact_request
    MaxRecipients,  \* bound: recipients of one call
    MaxMessages     \* bound: messages of one request

VARIABLES
    contact,        \* merge_contact_request
    sending         \* the loop under way, or Absent

contactVars == <<contact, sending>>

ContactStatuses == {"pending", "accepted", "ignored"}

\* User names; the token of a caller may hold none (""), shown as Nobody.
Names == Users \cup {Nobody}

UserName(u) == IF u \in Users THEN u ELSE Nobody

ContactRow == [from_proxy : ProxyIds, from_user : Names, to_user : Names,
               status : ContactStatuses, messages : 0 .. MaxMessages]

Sending == [proxy : ProxyIds, caller : Names, left : Seq(Names), tool : BOOLEAN]

ASSUME ContactAssumption ==
    /\ MaxRecipients \in Nat
    /\ MaxMessages \in Nat
    /\ Absent \notin ContactRow
    /\ Absent \notin Sending

\* Types; and nobody writes to themselves.
ContactTypeOK ==
    /\ contact \in [ContactIds -> ContactRow \cup {Absent}]
    /\ sending \in Sending \cup {Absent}
    /\ \A k \in Live(contact) : contact[k].from_user # contact[k].to_user

ContactInit ==
    /\ contact = [k \in ContactIds |-> Absent]
    /\ sending = Absent
-----------------------------------------------------------------------------
Recipients(S) == UNION {[1 .. n -> S] : n \in 1 .. MaxRecipients}

\* create_contact_requests up to its loop: the proxy is there and the caller's.
StartContact(u, p, tos) ==
    /\ sending = Absent
    /\ p \in Live(proxy)
    /\ proxy[p].creator = Nobody \/ u \notin Users \/ proxy[p].creator = u
    /\ sending' = [proxy |-> p, left |-> tos, tool |-> FALSE,
                   caller |-> IF u \in Users THEN u ELSE proxy[p].creator]
    /\ UNCHANGED contact

OwnerOf(p) == IF p \in Live(proxy) THEN proxy[p].creator ELSE Nobody

\* The tool speaks for the proxy's creator, whoever holds the token, and looks up
\* the creator of each target.
StartToolContact(p, targets) ==
    /\ sending = Absent
    /\ p \in Live(proxy)
    /\ sending' = [proxy |-> p, caller |-> proxy[p].creator, tool |-> TRUE,
                   left |-> [i \in DOMAIN targets |-> OwnerOf(targets[i])]]
    /\ UNCHANGED contact

\* Mutant: the pending request is looked up by its sender.
PendingFromUser(s, to) ==
    \E k \in Live(contact) :
        /\ contact[k].status = "pending"
        /\ contact[k].from_user = s.caller /\ contact[k].to_user = to

PendingContact(s, to) ==
    \E k \in Live(contact) :
        /\ contact[k].status = "pending"
        /\ contact[k].from_proxy = s.proxy /\ contact[k].to_user = to

\* Mutant: callers may be their own recipients.
SkippedIfPending(s, to) == (s.tool /\ to = Nobody) \/ PendingContact(s, to)

\* Recipients passed over: the caller, one who was asked already, and by the tool an
\* unknown owner.
Skipped(s, to) == to = s.caller \/ (s.tool /\ to = Nobody) \/ PendingContact(s, to)

NewContact(s, to) ==
    [from_proxy |-> s.proxy, from_user |-> s.caller, to_user |-> to,
     status |-> "pending", messages |-> 0]

\* One turn of the loop; the last one answers the call.  The tool does not look
\* whether the database refused to create the row.
SendOne(k, refused) ==
    LET to == Head(sending.left) IN
    /\ sending # Absent
    /\ refused => sending.tool /\ ~Skipped(sending, to)
    /\ IF refused \/ Skipped(sending, to)
       THEN UNCHANGED contact
       ELSE contact[k] = Absent /\ contact' = [contact EXCEPT ![k] = NewContact(sending, to)]
    /\ sending' = IF Len(sending.left) = 1 THEN Absent
                  ELSE [sending EXCEPT !.left = Tail(@)]

\* The process ends, the client goes, a query fails: what was written stays.
SendingCut == sending # Absent /\ sending' = Absent /\ UNCHANGED contact

\* Mutant: the status is not looked at.
AnswerableAnytime(u, k) == k \in Live(contact) /\ contact[k].to_user = UserName(u)

\* accept_contact_request and ignore_contact_request: by the recipient, once.
Answerable(u, k) ==
    /\ k \in Live(contact)
    /\ contact[k].to_user = UserName(u)
    /\ contact[k].status = "pending"

AcceptContact(u, k) ==
    /\ sending = Absent /\ Answerable(u, k)
    /\ contact' = [contact EXCEPT ![k].status = "accepted"]
    /\ UNCHANGED sending

IgnoreContact(u, k) ==
    /\ sending = Absent /\ Answerable(u, k)
    /\ contact' = [contact EXCEPT ![k].status = "ignored"]
    /\ UNCHANGED sending

\* Mutant: messages pass until the request is ignored.
TalkableUnlessIgnored(u, k) ==
    /\ k \in Live(contact)
    /\ UserName(u) \in {contact[k].from_user, contact[k].to_user}
    /\ contact[k].status # "ignored"

Talkable(u, k) ==
    /\ k \in Live(contact)
    /\ UserName(u) \in {contact[k].from_user, contact[k].to_user}
    /\ contact[k].status = "accepted"

AppendContactMessage(u, k) ==
    /\ sending = Absent /\ Talkable(u, k)
    /\ contact[k].messages < MaxMessages
    /\ contact' = [contact EXCEPT ![k].messages = @ + 1]
    /\ UNCHANGED sending

ContactStep ==
    \/ \E p \in ProxyIds :
         \/ \E u \in Callers, tos \in Recipients(Names) : StartContact(u, p, tos)
         \/ \E targets \in Recipients(ProxyIds) : StartToolContact(p, targets)
    \/ SendingCut
    \/ \E k \in ContactIds :
         \/ \E refused \in BOOLEAN : SendOne(k, refused)
         \/ \E u \in Callers : AcceptContact(u, k) \/ IgnoreContact(u, k)
         \/ \E u \in Callers : AppendContactMessage(u, k)

\* Proxies come and go between two calls; contact requests stay.
ContactNext ==
    \/ ContactStep /\ UNCHANGED vars
    \/ /\ sending = Absent
       /\ \/ \E u \in Callers, p \in ProxyIds, cut \in BOOLEAN : DeletePerson(u, p, cut)
          \/ \E u \in Callers, p, q \in ProxyIds, t \in TreeNames :
                AddPersonToTree(u, p, t, q)
       /\ UNCHANGED contactVars

ContactSpec == Init /\ ContactInit /\ [][ContactNext]_<<vars, contactVars>>
-----------------------------------------------------------------------------
\* One recipient has at most one pending request about a proxy, by whichever of
\* the two interfaces and however often calls were cut off and repeated.
OnePendingContact ==
    \A j, k \in Live(contact) :
        /\ contact[j].status = "pending" /\ contact[k].status = "pending"
        /\ contact[j].from_proxy = contact[k].from_proxy
        /\ contact[j].to_user = contact[k].to_user
        => j = k

\* Only accepted requests carry messages: there is no word between the two it names
\* before the recipient has agreed (append_contact_message).  That the sender it
\* names is the one who asked, it does not say: the tool takes the proxy's creator.
TalkNeedsConsent ==
    \A k \in Live(contact) : contact[k].messages > 0 => contact[k].status = "accepted"

\* A request accepted or ignored stays so, about the same proxy and between the
\* same two (accept_contact_request, ignore_contact_request).
DecidedContactIsFinal ==
    [][\A k \in Live(contact) :
         contact[k].status # "pending" =>
            /\ k \in Live(contact)'
            /\ contact'[k].status = contact[k].status
            /\ contact'[k].from_proxy = contact[k].from_proxy
            /\ contact'[k].from_user = contact[k].from_user
            /\ contact'[k].to_user = contact[k].to_user]_<<vars, contactVars>>
=============================================================================
