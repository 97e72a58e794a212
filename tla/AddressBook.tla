----------------------------- MODULE AddressBook -----------------------------
(***************************************************************************)
(* The address book of p2panda-net: what a node knows about other nodes,   *)
(* kept in the tables of p2panda-store/src/address_book and changed only   *)
(* by the messages of p2panda-net/src/address_book/actor.rs, one at a      *)
(* time.  A book is                                                        *)
(*   infos   what is known of a node, for the nodes with a row: whether it *)
(*           is a bootstrap, how the last connection with it went and its  *)
(*           transport info, if any (a set of at most one element);        *)
(*   topics  the topics a node is interested in (its own table);           *)
(*   seen    per topic, the set of interested nodes its watchers were last *)
(*           told about.                                                   *)
(* Transport infos are signed by their author or trusted by the user who   *)
(* entered them.  Every signature is good: who signs what is not the       *)
(* subject here.                                                           *)
(***************************************************************************)
EXTENDS Naturals, FiniteSets

CONSTANTS Nodes, Topics

(* A hybrid timestamp: the wall clock and a counter for one of its ticks. *)
Later(s, t) ==
    s[1] > t[1] \/ (s[1] = t[1] /\ s[2] > t[2])

(* HybridTimestamp::increment. *)
Increment(s, now) ==
    IF now = s[1] THEN <<now, s[2] + 1>> ELSE <<now, 0>>

TransportInfo(stamp, addr, signed) ==
    [stamp |-> stamp, addr |-> addr, signed |-> signed]

(* Signed by its author, or entered by a user who trusts it. *)
AuthenticatedTransportInfo(stamp, addr) ==
    TransportInfo(stamp, addr, TRUE)

TrustedTransportInfo(now, addr) ==
    TransportInfo(<<now, 0>>, addr, FALSE)

NewNodeInfo ==
    [bootstrap |-> FALSE, last |-> "none", transports |-> {}]

EmptyBook ==
    [infos  |-> [id \in {} |-> NewNodeInfo],
     topics |-> [id \in Nodes |-> {}],
     seen   |-> [t \in Topics |-> {}]]

Known(book) ==
    DOMAIN book.infos

(* NodeMetrics::is_stale: the last connection failed. *)
LastFailed(info) ==
    info.last = "down"

(* A bootstrap is never stale. *)
IsStale(book, id) ==
    /\ id \in Known(book)
    /\ ~ book.infos[id].bootstrap
    /\ LastFailed(book.infos[id])

(* NodeInfo::transports: only what its author signed is handed to others. *)
SignedTransports(book, id) ==
    IF id \in Known(book)
        THEN {t \in book.infos[id].transports : t.signed} ELSE {}

AllNodeInfos(book) ==
    {id \in Known(book) : ~ IsStale(book, id)}

AllBootstrapNodes(book) ==
    {id \in AllNodeInfos(book) : book.infos[id].bootstrap}

NodeInfosByTopics(book, topics) ==
    {id \in AllNodeInfos(book) : book.topics[id] \cap topics # {}}

NodeInfo(book, id) ==
    IF id \in Known(book) THEN book.infos[id] ELSE NewNodeInfo

PutNodeInfo(book, id, info) ==
    [book EXCEPT !.infos = [x \in Known(book) \cup {id} |->
                                IF x = id THEN info ELSE book.infos[x]]]

(* NodeInfo::update_transports: the last write wins. *)
IsNewer(current, other) ==
    \A t \in current : Later(other.stamp, t.stamp)

UpdateTransports(info, other) ==
    IF IsNewer(info.transports, other)
        THEN [info EXCEPT !.transports = {other}] ELSE info

(* InsertTransportInfo: the rest of the node's row stays as it is. *)
InsertTransportInfo(book, id, other) ==
    PutNodeInfo(book, id, UpdateTransports(NodeInfo(book, id), other))

(* InsertNodeInfo, for a bootstrap node: the row is overwritten. *)
InsertBootstrap(book, id, other) ==
    PutNodeInfo(book, id,
        UpdateTransports([NewNodeInfo EXCEPT !.bootstrap = TRUE], other))

(* What a report makes of the last connection: a failure is only later than
   a success, and the node only stale, if it was not reported in the same
   microsecond. *)
LastAfter(info, ok) ==
    IF ok THEN {"up"} ELSE {"down"} \cup ({info.last} \cap {"up"})

(* Report: nothing is recorded of a node without a row, and no watcher is
   told. *)
Reported(book, id, ok) ==
    IF id \notin Known(book) THEN {book}
    ELSE {[book EXCEPT !.infos[id].last = l] :
              l \in LastAfter(book.infos[id], ok)}

(* RemoveNodeInfo; no watcher is told. *)
RemoveNodeInfo(book, id) ==
    [book EXCEPT !.infos = [x \in Known(book) \ {id} |-> book.infos[x]],
                 !.topics[id] = {}]

StoreTopics(book, id, topics) ==
    [book EXCEPT !.topics[id] = topics]

WatchedTopic(book, t) ==
    NodeInfosByTopics(book, {t})

(* SetTopics: the topics are replaced; the watchers of the new topics (and
   not those of topics that are gone) are told who is interested. *)
SetTopics(book, id, topics) ==
    LET b == StoreTopics(book, id, topics)
    IN  [b EXCEPT !.seen = [t \in Topics |->
             IF t \in topics THEN WatchedTopic(b, t) ELSE b.seen[t]]]

AddTopic(book, id, t) ==
    IF t \in book.topics[id] THEN book
    ELSE SetTopics(book, id, book.topics[id] \cup {t})

RemoveTopic(book, id, t) ==
    IF t \notin book.topics[id] THEN book
    ELSE SetTopics(book, id, book.topics[id] \ {t})

=============================================================================
