------------------------------ MODULE CartNote ------------------------------
(***************************************************************************)
(* The cart note of theme.js: adjustCart binds a change handler to the    *)
(* cart's note textarea that saves every new text with                     *)
(* Shopify.updateCartNote (POST /cart/update.js).  Requests are served in *)
(* any order; the success callback does nothing, a failure alerts through *)
(* Shopify.onError.  Notes are model values.                              *)
(***************************************************************************)
EXTENDS Naturals, Bags, BagsExt

CONSTANTS
    Notes,           \* texts the shopper may type
    NoNote,          \* the note of a fresh cart
    Lossy,           \* requests may fail in transport
    MaxActs          \* bound on shopper edits in one behaviour

VARIABLES
    note,            \* server: the cart's note
    textarea,        \* the textarea's value
    net,             \* bag of /cart/update.js requests in flight
    queue,           \* bag of ready callbacks of those requests
    acts             \* shopper edits so far

vars == <<note, textarea, net, queue, acts>>

Init ==
    /\ note = NoNote
    /\ textarea = NoNote
    /\ net = EmptyBag
    /\ queue = EmptyBag
    /\ acts = 0

\* change on textarea[name="note"]: Shopify.updateCartNote(newNote, ...).
ChangeNote(n) ==
    /\ acts < MaxActs
    /\ n # textarea
    /\ acts' = acts + 1
    /\ textarea' = n
    /\ net' = BagAdd(net, [note |-> n])
    /\ UNCHANGED <<note, queue>>

\* /cart/update.js stores the note and answers with the cart.
ServeUpdate(r) ==
    /\ net' = BagRemove(net, r)
    /\ note' = r.note
    /\ queue' = BagAdd(queue, "updated")
    /\ UNCHANGED <<textarea, acts>>

\* The request fails in transport: its error callback is ready.
FailUpdate(r) ==
    /\ Lossy
    /\ net' = BagRemove(net, r)
    /\ queue' = BagAdd(queue, "failed")
    /\ UNCHANGED <<note, textarea, acts>>

\* The success callback function(cart) {} or Shopify.onError's alert: the
\* page state is left alone.
Answered(e) ==
    /\ queue' = BagRemove(queue, e)
    /\ UNCHANGED <<note, textarea, net, acts>>

Next ==
    \/ \E n \in Notes : ChangeNote(n)
    \/ \E r \in DOMAIN net : ServeUpdate(r) \/ FailUpdate(r)
    \/ \E e \in DOMAIN queue : Answered(e)

Spec == Init /\ [][Next]_vars

-----------------------------------------------------------------------------
(* Properties *)

\* Once every note update has been answered, the cart's note is the text in
\* the textarea: the last text the shopper typed is the one saved.
NoteSavedWhenQuiet ==
    (net = EmptyBag /\ queue = EmptyBag) => note = textarea

====
