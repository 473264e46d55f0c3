----------------------------- MODULE Publishing -----------------------------
(***************************************************************************)
(* Drafting and publishing one customization resource:                     *)
(* src/lib/customization/drafts.ts and publish.ts as the routes under      *)
(* api/site-admin/customization/resources/[id] call them.                  *)
(*                                                                         *)
(* Every handler is one transaction that locks the draft or the policy row *)
(* first, so a handler is one step; what is concurrent are the operators,  *)
(* who act on a screen that may be stale, lose answers and repeat          *)
(* requests.  A transaction that answers a refusal still commits.          *)
(*                                                                         *)
(* A layer is a member of Texts, or, for the "inherit" layer, the lock     *)
(* version it was written at: each has an id, hence a hash, of its own.    *)
(* A review covers both languages: the route sets or keeps both at once.   *)
(* A revision and the release that points to it are one record.            *)
(***************************************************************************)
EXTENDS Naturals, Sequences, FiniteSets

CONSTANTS
  Editors,         \* operators with an editing screen
  Texts,           \* contents a layer can have
  OpKeys,          \* idempotency keys the screens send
  MaxLock,         \* bound on the saves of the draft
  MaxPolicy,       \* bound on the changes of the policy
  NoText, NoEditor

ASSUME PublishingAssumption ==
  /\ MaxLock \in Nat \ {0} /\ MaxPolicy \in Nat \ {0}
  /\ NoEditor \notin Editors
  /\ NoText \notin Texts /\ NoText \notin Nat /\ Texts \cap Nat = {}

VARIABLES
  draft,       \* customization_drafts: lock 0 while there is no row
  releases,    \* customization_releases with their revisions, oldest first
  generation,  \* generation of the head
  policy,      \* customization_policy
  operations,  \* customization_operations: the publications by their key
  screen,      \* [Editors]: what each operator last saw of all that
  author,      \* history: who acted last
  reviewedEver \* history: every layer an operator marked as reviewed

pubVars == <<draft, releases, generation, policy, operations, screen, author,
             reviewedEver>>

Layers == Texts \cup (1..MaxLock)
PublishRequests == [lock : 0..MaxLock + 1, generation : Nat, historical : BOOLEAN]

PubTypeOK ==
  /\ draft \in [lock : 0..MaxLock, payload : Layers \cup {NoText},
                reviews : Layers \cup {NoText}]
  /\ releases \in Seq([payload : Layers, replaces : Nat, historical : BOOLEAN])
  /\ generation \in Nat
  /\ policy \in [withdrawn : BOOLEAN, version : 1..MaxPolicy]
  /\ operations \subseteq [actor : Editors, key : OpKeys, request : PublishRequests,
                           release : Nat]
  /\ screen \in [Editors -> [lock : Nat, payload : Layers \cup {NoText},
                             generation : Nat, active : Nat,
                             withdrawn : BOOLEAN, version : Nat]]
  /\ author \in Editors \cup {NoEditor}
  /\ reviewedEver \subseteq Layers

(* The head points to the newest release. *)
Active == Len(releases)

Shown == [lock |-> draft.lock, payload |-> draft.payload,
          generation |-> generation, active |-> Active,
          withdrawn |-> policy.withdrawn, version |-> policy.version]

(* createCustomizationResource: the resource, its head and its policy *)
PubInit ==
  /\ draft = [lock |-> 0, payload |-> NoText, reviews |-> NoText]
  /\ releases = <<>> /\ generation = 1
  /\ policy = [withdrawn |-> FALSE, version |-> 1]
  /\ operations = {}
  /\ screen = [e \in Editors |-> Shown]
  /\ author = NoEditor
  /\ reviewedEver = {}

(* An operator opens or reloads the resource. *)
LoadScreen(e) ==
  /\ screen' = [screen EXCEPT ![e] = Shown]
  /\ author' = e
  /\ UNCHANGED <<draft, releases, generation, policy, operations, reviewedEver>>

(* The answer reaches the screen, or is lost. *)
Answered(e, seen) == screen' \in {screen, [screen EXCEPT ![e] = seen]}

(* The lock version is not compared. *)
AnyDraft(e) == draft.lock < MaxLock

(* saveDraft and inheritAgain compare the lock version they were sent. *)
DraftAsSeen(e) ==
  /\ draft.lock < MaxLock
  /\ draft.lock = screen[e].lock

(* PATCH draft: markReviewed or the reviews the draft had *)
SaveDraft(e, text, markReviewed) ==
  /\ draft.lock = 0 \/ DraftAsSeen(e)
  /\ draft' = [lock |-> draft.lock + 1, payload |-> text,
               reviews |-> IF markReviewed THEN text ELSE draft.reviews]
  /\ reviewedEver' = IF markReviewed THEN reviewedEver \cup {text} ELSE reviewedEver
  /\ author' = e
  /\ Answered(e, [screen[e] EXCEPT !.lock = draft.lock + 1, !.payload = text])
  /\ UNCHANGED <<releases, generation, policy, operations>>

(* inheritAgain: only the draft changes, and it keeps its reviews. *)
InheritAgain(e) ==
  /\ draft.lock > 0 /\ DraftAsSeen(e)
  /\ draft' = [draft EXCEPT !.lock = @ + 1, !.payload = draft.lock + 1]
  /\ author' = e
  /\ Answered(e, [screen[e] EXCEPT !.lock = draft.lock + 1, !.payload = draft.lock + 1])
  /\ UNCHANGED <<releases, generation, policy, operations, reviewedEver>>

(* An earlier operation is found by its request too. *)
PriorSameRequest(e, key, request) ==
  {o \in operations : o.actor = e /\ o.key = key /\ o.request = request}

Prior(e, key, request) == {o \in operations : o.actor = e /\ o.key = key}

(* Nobody asks whether there is a draft. *)
DraftOrNone == TRUE

HasDraft == draft.lock > 0

(* A draft that was reviewed once, whatever it holds now *)
ReviewedOnce == draft.reviews # NoText

Reviewed == draft.reviews = draft.payload

(* publishInTransaction: revision, release, head and operation together; an
   earlier operation under the key is replayed or in conflict. *)
WriteRelease(e, key, request, layer) ==
  /\ request.generation = generation
  /\ releases' = Append(releases, [payload |-> layer, replaces |-> Active,
                                   historical |-> request.historical])
  /\ generation' = generation + 1
  /\ operations' = operations \cup
       {[actor |-> e, key |-> key, request |-> request, release |-> Active + 1]}

Publish(e, key) ==
  LET request == [lock |-> screen[e].lock, generation |-> screen[e].generation,
                  historical |-> FALSE]
  IN  /\ HasDraft
      /\ Prior(e, key, request) = {}
      /\ draft.lock = request.lock
      /\ Reviewed
      /\ WriteRelease(e, key, request, draft.payload)
      /\ author' = e
      /\ Answered(e, [screen[e] EXCEPT !.generation = generation + 1,
                                       !.active = Active + 1])
      /\ UNCHANGED <<draft, policy, reviewedEver>>

(* The repeated request finds its operation: the answer of the first one. *)
ReplayPublish(e, key) ==
  LET request == [lock |-> screen[e].lock, generation |-> screen[e].generation,
                  historical |-> FALSE]
  IN  \E o \in Prior(e, key, request) :
        /\ o.request = request
        /\ screen' = [screen EXCEPT ![e].generation = request.generation + 1,
                                    ![e].active = o.release]
        /\ author' = e
        /\ UNCHANGED <<draft, releases, generation, policy, operations, reviewedEver>>

(* rollbackToRevision: the draft is overwritten first, whatever lock version
   the screen sent; the refusal of the publication keeps that change. *)
Rollback(e, key, number) ==
  LET layer == releases[number].payload
      request == [lock |-> draft.lock + 1, generation |-> screen[e].generation,
                  historical |-> TRUE]
  IN  /\ draft.lock < MaxLock
      /\ draft' = [lock |-> draft.lock + 1, payload |-> layer, reviews |-> NoText]
      /\ author' = e
      /\ \/ /\ Prior(e, key, request) = {}
            /\ WriteRelease(e, key, request, layer)
            /\ Answered(e, [screen[e] EXCEPT !.generation = generation + 1,
                            !.active = Active + 1, !.lock = @ + 1, !.payload = layer])
         \/ /\ Prior(e, key, request) # {} \/ request.generation # generation
            /\ UNCHANGED <<releases, generation, operations, screen>>
      /\ UNCHANGED <<policy, reviewedEver>>

(* The policy version is not compared. *)
AnyPolicy(e) == TRUE

PolicyAsSeen(e) == policy.version = screen[e].version

(* setPolicyAtomically: withdrawal, its lifting, or another restriction *)
SetPolicy(e, withdrawn) ==
  /\ policy.version < MaxPolicy
  /\ PolicyAsSeen(e)
  /\ policy' = [withdrawn |-> withdrawn, version |-> policy.version + 1]
  /\ author' = e
  /\ Answered(e, [screen[e] EXCEPT !.withdrawn = withdrawn,
                                   !.version = policy.version + 1])
  /\ UNCHANGED <<draft, releases, generation, operations, reviewedEver>>

PubNext == \E e \in Editors :
  \/ LoadScreen(e)
  \/ \E text \in (Texts \cup {screen[e].payload}) \ {NoText}, marked \in BOOLEAN :
       SaveDraft(e, text, marked)
  \/ InheritAgain(e)
  \/ \E key \in OpKeys :
       \/ Publish(e, key)
       \/ ReplayPublish(e, key)
       \/ \E number \in 1..Len(releases) : Rollback(e, key, number)
  \/ \E withdrawn \in BOOLEAN : SetPolicy(e, withdrawn)

PubSpec == PubInit /\ [][PubNext]_pubVars

-----------------------------------------------------------------------------
(* Every layer that was ever live was marked as reviewed as exactly that
   layer: not a later edit under the review of an earlier text, not an inherit
   layer under kept reviews, and a rollback only brings back what had passed.
   publish.ts: bilingual_review_required, layerOverride. *)
LiveWasReviewed == \A n \in 1..Len(releases) : releases[n].payload \in reviewedEver

(* A key of an operator stands for one publication, and every publication for
   one key: neither a retry nor another request under the key publishes again.
   publish.ts: the operations table. *)
KeyPublishesOnce ==
  /\ \A o, p \in operations :
       o.release = p.release \/ (o.actor = p.actor /\ o.key = p.key) => o = p
  /\ Cardinality(operations) = Len(releases)

(* Whoever changes something had it on the screen: an edit replaces the draft
   its author saw, a publication puts out the draft and replaces the release
   its author saw, and a withdrawal is only lifted by one who knew of it.  A
   rollback replaces any draft (lockVersion is not compared), but still only
   the release its author saw. *)
ActedOnWhatWasSeen ==
  [][author' \in Editors =>
     LET seen == screen[author'] IN
     /\ draft' # draft =>
          \/ seen.payload = draft.payload
          \/ draft.lock = 0
          \/ draft'.reviews = NoText
             /\ \E n \in 1..Len(releases) : draft'.payload = releases[n].payload
     /\ releases' # releases =>
          /\ seen.active = Active
          /\ releases'[Len(releases')].historical
               \/ releases'[Len(releases')].payload = seen.payload
     /\ policy.withdrawn /\ ~policy'.withdrawn => seen.withdrawn]_pubVars

=============================================================================
