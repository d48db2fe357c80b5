------------------------------ MODULE AjaxCart ------------------------------
(***************************************************************************)
(* The ajax cart of theme.js (ajaxifyShopify and the Shopify.* request     *)
(* helpers), composed with the remote cart it talks to.                   *)
(*                                                                         *)
(* The page is single threaded: every handler below runs to completion.   *)
(* Concurrency comes from two multisets:                                   *)
(*   net   - requests sent with jQuery.ajax / getJSON / .load that the     *)
(*           server has not served yet (served in any order);              *)
(*   queue - callbacks ready to run on the event loop: responses and       *)
(*           expired setTimeout timers (run in any order).                 *)
(* The server cart is a sequence of lines; line numbers are positions.    *)
(***************************************************************************)
EXTENDS Integers, Sequences, SequencesExt, Bags, BagsExt, CartServer

CONSTANTS
    InitCart,        \* the server cart when the page is loaded
    AddQtys,         \* quantities the product form may submit
    Typed,           \* values a shopper may type into a cart quantity field
    NaN,             \* an unparseable typed value
    Method,          \* settings.method: "drawer", "modal" or "flip"
    UseCartTemplate, \* settings.useCartTemplate
    RemoveLinks,     \* the cart markup carries ajaxified remove links
    AddForm,         \* the page has the add-to-cart form
    Lossy,           \* requests may fail in transport
    MaxActs          \* bound on shopper actions in one behaviour

VARIABLES
    cart,          \* server: the cart (sequence of [key, qty])
    ver,           \* server: number of mutations applied (auxiliary)
    view,          \* DOM: rendered cart rows [key, qty (input value), removed]
    shownVer,      \* auxiliary: newest server version ever rendered
    badge,         \* item count shown by the cart-count badge
    isUpdating,    \* ajaxifyShopify's isUpdating
    cartInit,      \* ajaxifyShopify's cartInit
    visible,       \* the surface (drawer or modal container) has is-visible
    intent,        \* auxiliary: what the shopper last asked of the surface:
                   \* "open", "closed" (and not asked since) or "none"
    height,        \* drawer inline height: "auto" (no style), "content", "zero"
    addBtn,        \* add-to-cart button class: "idle", "adding", "added"
    qtyError,      \* a .qty-error block follows the product form
    flipLoading,   \* flip container has flip--is-loading
    flipped,       \* flip container has is-flipped
    imagesPending, \* load handlers are bound to cart images not yet loaded
    net,           \* bag of requests in flight
    queue,         \* bag of ready callbacks and expired timers
    acts           \* shopper actions taken so far

vars == <<cart, ver, view, shownVer, badge, isUpdating, cartInit, visible, intent,
          height, addBtn, qtyError, flipLoading, flipped, imagesPending,
          net, queue, acts>>

-----------------------------------------------------------------------------
(* Data *)

\* The rows the cart markup shows for cart c (data-line is the position).
Rows(c) == [i \in 1..Len(c) |-> [key |-> c[i].key, qty |-> c[i].qty,
                                  removed |-> FALSE]]

\* parseFloat(v) == parseInt(v) && !isNaN(v): true of any integer string.
IsIntString(v) == v # NaN

\* validateQty(parseInt(v)): an unparseable value falls back to 1.
validateQty(v) == IF IsIntString(v) THEN v ELSE 1

Later(a, b) == IF a >= b THEN a ELSE b

Send(r) == net' = BagAdd(net, r)
Post(e) == queue' = BagAdd(queue, e)

-----------------------------------------------------------------------------
(* The remote cart: /cart/add.js, /cart/change.js, /cart.js, /cart *)

\* The server serves one request: the cart is read or mutated, and the
\* response becomes a callback ready to run.
ServeAdd(r) ==
    /\ r.kind = "add"
    /\ IF CanAdd(cart, r.key, r.qty)
       THEN /\ cart' = AddLine(cart, r.key, r.qty)
            /\ ver' = ver + 1
            /\ queue' = BagAdd(queue, [kind |-> "addOk"])
       ELSE /\ queue' = BagAdd(queue, [kind |-> "addErr", s422 |-> TRUE])
            /\ UNCHANGED <<cart, ver>>

ServeChange(r) ==
    /\ r.kind = "change"
    /\ IF CanChange(cart, r.line, r.qty)
       THEN /\ cart' = ChangeLine(cart, r.line, r.qty)
            /\ ver' = ver + 1
            /\ queue' = BagAdd(queue, [kind |-> "changeOk", snap |-> cart',
                                       v |-> ver + 1])
       ELSE /\ queue' = BagAdd(queue, [kind |-> "changeErr"])
            /\ UNCHANGED <<cart, ver>>

ServeGet(r) ==
    /\ r.kind = "get"
    /\ queue' = BagAdd(queue, [kind |-> "got", cb |-> r.cb, snap |-> cart,
                               v |-> ver])
    /\ UNCHANGED <<cart, ver>>

\* $cartContainer.load(cartUrl): the server-rendered /cart form.
ServeLoad(r) ==
    /\ r.kind = "load"
    /\ queue' = BagAdd(queue, [kind |-> "loaded", ok |-> TRUE, snap |-> cart,
                               v |-> ver, count |-> r.count])
    /\ UNCHANGED <<cart, ver>>

Serve(r) ==
    /\ net' = BagRemove(net, r)
    /\ \/ ServeAdd(r) \/ ServeChange(r) \/ ServeGet(r) \/ ServeLoad(r)
    /\ UNCHANGED <<view, shownVer, badge, isUpdating, cartInit, visible, intent,
                   height, addBtn, qtyError, flipLoading, flipped,
                   imagesPending, acts>>

\* A request fails in transport. getJSON has no error callback, so a failed
\* /cart.js leaves nothing to run; .load still runs its complete callback.
FailureOf(r) ==
    CASE r.kind = "add"    -> {[kind |-> "addErr", s422 |-> FALSE]}
      [] r.kind = "change" -> {[kind |-> "changeErr"]}
      [] r.kind = "get"    -> {}
      [] r.kind = "load"   -> {[kind |-> "loaded", ok |-> FALSE, snap |-> <<>>,
                                v |-> 0, count |-> r.count]}

Fail(r) ==
    /\ Lossy
    /\ net' = BagRemove(net, r)
    /\ queue' = queue (+) SetToBag(FailureOf(r))
    /\ UNCHANGED <<cart, ver, intent, view, shownVer, badge, isUpdating, cartInit,
                   visible, height, addBtn, qtyError, flipLoading, flipped,
                   imagesPending, acts>>

-----------------------------------------------------------------------------
(* Surface helpers: showDrawer, hideDrawer, showModal, hideModal *)

\* showDrawer(toggle): the fetch it starts, if any, and the drawer height.
ShowDrawerFetch(toggle) ==
    IF Method = "flip" THEN {[kind |-> "get", cb |-> "flipUpdate"]}
    ELSE IF ~cartInit /\ toggle THEN {[kind |-> "get", cb |-> "cartUpdate"]}
    ELSE {}

ShowDrawer(toggle) ==
    /\ net' = net (+) SetToBag(ShowDrawerFetch(toggle))
    /\ height' = IF Method # "flip" /\ cartInit /\ toggle THEN "content"
                 ELSE height
    /\ visible' = TRUE

HideDrawer ==
    /\ visible' = FALSE
    /\ height' = "auto"

\* sizeDrawer($empty): the drawer height is 0px or its content's height.
SizeDrawer(empty) == height' = IF empty THEN "zero" ELSE "content"

\* sizeModal(): the modal container gets is-visible.
SizeModal == visible' = TRUE

\* hideModal(): is-visible is removed from the modal container.
HideModal == visible' = FALSE

\* updateCountPrice(cart): the badge shows cart.item_count.
UpdateCountPrice(snap) == badge' = ItemCount(snap)

\* Mutant: a later open neither fetches nor calls sizeModal.
ShowModalNoSize ==
    IF ~cartInit
    THEN /\ Send([kind |-> "get", cb |-> "cartUpdate"])
         /\ UNCHANGED visible
    ELSE UNCHANGED <<visible, net>>

\* showModal(true): the first open only fetches the cart; sizeModal, which
\* adds is-visible, runs once the cart is built and its images are loaded.
ShowModal ==
    IF ~cartInit
    THEN /\ Send([kind |-> "get", cb |-> "cartUpdate"])
         /\ UNCHANGED visible
    ELSE /\ SizeModal
         /\ UNCHANGED net

-----------------------------------------------------------------------------
(* Shopper actions: handlers bound by adjustCart, formOverride,
   setToggleButtons, flipSetup and init *)

Act == acts < MaxActs /\ acts' = acts + 1

Clickable(i) == i \in 1..Len(view) /\ ~view[i].removed

\* updateQuantity(line, qty): mark busy, mark the row (is-removed when qty is
\* the number 0), and call changeItem after the 250ms removal delay.
UpdateQuantity(i, q, marked) ==
    /\ isUpdating' = TRUE
    /\ Post([kind |-> "removeTimer", line |-> i, qty |-> q,
             key |-> view[i].key])
    /\ view' = [view EXCEPT ![i].removed = marked]

\* Mutant: the stepper click does not check isUpdating.
ClickQtyAdjustUnguarded(i, add) ==
    /\ Act
    /\ Clickable(i)
    /\ LET q0 == validateQty(view[i].qty)
           q  == IF add THEN q0 + 1 ELSE IF q0 <= 0 THEN 0 ELSE q0 - 1
       IN UpdateQuantity(i, q, q = 0)
    /\ UNCHANGED <<cart, ver, intent, shownVer, badge, cartInit, visible, height,
                   addBtn, qtyError, flipLoading, flipped, imagesPending, net>>

\* Click on .ajaxifyCart--qty span (add or minus) of row i.
ClickQtyAdjust(i, add) ==
    /\ Act
    /\ Clickable(i)
    /\ ~isUpdating
    /\ LET q0 == validateQty(view[i].qty)
           q  == IF add THEN q0 + 1 ELSE IF q0 <= 0 THEN 0 ELSE q0 - 1
       IN UpdateQuantity(i, q, q = 0)
    /\ UNCHANGED <<cart, ver, intent, shownVer, badge, cartInit, visible, height,
                   addBtn, qtyError, flipLoading, flipped, imagesPending, net>>

\* change on .ajaxifyCart--num of row i after the shopper typed v: ignored
\* while updating; an unparseable value is reset to 1; otherwise the typed
\* string is sent (qty === 0 is false for a string, so no is-removed).
TypeQty(i, v) ==
    /\ Act
    /\ Clickable(i)
    /\ v # view[i].qty
    /\ \/ /\ isUpdating
          /\ view' = [view EXCEPT ![i].qty = v]
          /\ UNCHANGED <<isUpdating, queue>>
       \/ /\ ~isUpdating
          /\ ~IsIntString(v)
          /\ view' = [view EXCEPT ![i].qty = 1]
          /\ UNCHANGED <<isUpdating, queue>>
       \/ /\ ~isUpdating
          /\ IsIntString(v)
          /\ UpdateQuantity(i, v, FALSE)
    /\ UNCHANGED <<cart, ver, intent, shownVer, badge, cartInit, visible, height,
                   addBtn, qtyError, flipLoading, flipped, imagesPending, net>>

\* Click on .ajaxifyCart--remove of row i: no isUpdating check.
ClickRemove(i) ==
    /\ RemoveLinks
    /\ Act
    /\ Clickable(i)
    /\ UpdateQuantity(i, 0, TRUE)
    /\ UNCHANGED <<cart, ver, intent, shownVer, badge, cartInit, visible, height,
                   addBtn, qtyError, flipLoading, flipped, imagesPending, net>>

\* Submit of the product form (formOverride).
SubmitAddForm(k, q) ==
    /\ AddForm
    /\ Act
    /\ addBtn' = "adding"
    /\ qtyError' = FALSE
    /\ intent' = IF intent = "closed" THEN "none" ELSE intent
    /\ Send([kind |-> "add", key |-> k, qty |-> q])
    /\ flipLoading' = (Method = "flip" \/ flipLoading)
    /\ UNCHANGED <<cart, ver, view, shownVer, badge, isUpdating, cartInit,
                   visible, height, flipped, imagesPending, queue>>

\* Click on the cart toggle button (setToggleButtons): the state is read from
\* the surface's is-visible class.
ClickToggle ==
    /\ Act
    /\ intent' = IF visible THEN "closed" ELSE "open"
    /\ IF Method = "modal"
       THEN IF visible THEN /\ HideModal /\ UNCHANGED <<net, height>>
            ELSE ShowModal /\ UNCHANGED height
       ELSE IF visible THEN HideDrawer /\ UNCHANGED net
            ELSE ShowDrawer(TRUE)
    /\ UNCHANGED <<cart, ver, view, shownVer, badge, isUpdating, cartInit,
                   addBtn, qtyError, flipLoading, flipped, imagesPending, queue>>

\* Escape key (keyup 27): hideDrawer or hideModal, whatever the state.
PressEscape ==
    /\ Act
    /\ intent' = "closed"
    /\ IF Method = "modal" THEN /\ HideModal /\ UNCHANGED height
       ELSE HideDrawer
    /\ UNCHANGED <<cart, ver, view, shownVer, badge, isUpdating, cartInit,
                   addBtn, qtyError, flipLoading, flipped, imagesPending,
                   net, queue>>

\* Click on the modal's close button (modalSetup): hideModal.
ClickCloseModal ==
    /\ Method = "modal"
    /\ Act
    /\ visible
    /\ HideModal
    /\ intent' = "closed"
    /\ UNCHANGED <<cart, ver, view, shownVer, badge, isUpdating, cartInit,
                   height, addBtn, qtyError, flipLoading, flipped,
                   imagesPending, net, queue>>

\* Click on the flip method's "View Cart" link: showDrawer(true).
ClickFlipCart ==
    /\ Method = "flip"
    /\ Act
    /\ intent' = "open"
    /\ ShowDrawer(TRUE)
    /\ UNCHANGED <<cart, ver, view, shownVer, badge, isUpdating, cartInit,
                   addBtn, qtyError, flipLoading, flipped, imagesPending, queue>>

\* Click on a variant option of the product form: revertFlipButton.
ClickVariantOption ==
    /\ Method = "flip" /\ AddForm
    /\ Act
    /\ flipped' = FALSE
    /\ UNCHANGED <<cart, ver, intent, view, shownVer, badge, isUpdating, cartInit,
                   visible, height, addBtn, qtyError, flipLoading,
                   imagesPending, net, queue>>

\* Debounced window resize: a visible drawer is resized to its content.
ResizeWindow ==
    /\ Method # "modal"
    /\ Act
    /\ visible
    /\ SizeDrawer(FALSE)
    /\ UNCHANGED <<cart, ver, intent, view, shownVer, badge, isUpdating, cartInit,
                   visible, addBtn, qtyError, flipLoading, flipped,
                   imagesPending, net, queue>>

-----------------------------------------------------------------------------
(* Rendering: buildCart and the .load callback of cartTemplate *)

\* buildCart(cart), followed by showDrawer() when showAfter. An empty cart is
\* rendered at once (sizeModal('resize') shows the modal; the drawer gets its
\* content height, or 0 when hidden and already built); otherwise the
\* /cart form is loaded (useCartTemplate) or the rows are templated.
BuildCart(snap, v, showAfter) ==
    IF ItemCount(snap) = 0
    THEN /\ view' = <<>>
         /\ shownVer' = Later(shownVer, v)
         /\ imagesPending' = FALSE
         /\ visible' = (Method = "modal" \/ showAfter \/ visible)
         /\ height' = IF Method = "modal" THEN height
                      ELSE IF ~visible /\ cartInit THEN "zero" ELSE "content"
         /\ UNCHANGED <<net, cartInit>>
    ELSE IF UseCartTemplate
    THEN /\ Send([kind |-> "load", count |-> ItemCount(snap)])
         /\ visible' = (showAfter \/ visible)
         /\ UNCHANGED <<view, shownVer, imagesPending, height, cartInit>>
    ELSE /\ view' = Rows(snap)
         /\ shownVer' = Later(shownVer, v)
         /\ imagesPending' = TRUE
         /\ cartInit' = TRUE
         /\ visible' = (showAfter \/ visible)
         /\ UNCHANGED <<net, height>>

\* The cartTemplate .load complete callback: the loaded form replaces the
\* rows when the load succeeded; images are awaited (modal, or a non-empty
\* cart as counted by the /cart.js response) or the drawer collapses.
Loaded(e) ==
    /\ e.kind = "loaded"
    /\ IF e.ok THEN view' = Rows(e.snap) /\ shownVer' = Later(shownVer, e.v)
       ELSE UNCHANGED <<view, shownVer>>
    /\ IF Method = "modal" \/ e.count > 0
       THEN /\ imagesPending' = IF e.ok THEN Len(e.snap) > 0 ELSE imagesPending
            /\ UNCHANGED height
       ELSE /\ SizeDrawer(TRUE)
            /\ UNCHANGED imagesPending
    /\ cartInit' = TRUE
    /\ queue' = BagRemove(queue, e)
    /\ UNCHANGED <<cart, ver, intent, badge, isUpdating, visible, addBtn, qtyError,
                   flipLoading, flipped, net, acts>>

\* All bound cart images fired load: sizeModal() or sizeDrawer().
ImagesLoaded ==
    /\ imagesPending
    /\ imagesPending' = FALSE
    /\ IF Method = "modal" THEN SizeModal /\ UNCHANGED height
       ELSE SizeDrawer(FALSE) /\ UNCHANGED visible
    /\ UNCHANGED <<cart, ver, intent, view, shownVer, badge, isUpdating, cartInit,
                   addBtn, qtyError, flipLoading, flipped, net, queue, acts>>

-----------------------------------------------------------------------------
(* Callbacks run from the event queue *)

\* itemAddedCallback: button is-added, flip after 600ms, fetch the cart.
ItemAdded(e) ==
    /\ e.kind = "addOk"
    /\ addBtn' = "added"
    /\ queue' = BagRemove(queue, e) (+)
                  SetToBag(IF Method = "flip" THEN {[kind |-> "flipTimer"]}
                           ELSE {})
    /\ Send([kind |-> "get", cb |-> "cartUpdate"])
    /\ UNCHANGED <<cart, ver, intent, view, shownVer, badge, isUpdating, cartInit,
                   visible, height, qtyError, flipLoading, flipped,
                   imagesPending, acts>>

\* Mutant: the error callback forgets to stop the flip loader.
ItemErrorKeepsLoader(e) ==
    /\ e.kind = "addErr"
    /\ qtyError' = e.s422
    /\ queue' = BagRemove(queue, e)
    /\ UNCHANGED <<cart, ver, intent, view, shownVer, badge, isUpdating, cartInit,
                   visible, height, addBtn, flipLoading, flipped, imagesPending,
                   net, acts>>

\* itemErrorCallback: stop the flip loader; a 422 shows the error block.
\* The button keeps is-adding.
ItemError(e) ==
    /\ e.kind = "addErr"
    /\ flipLoading' = (Method # "flip" /\ flipLoading)
    /\ qtyError' = e.s422
    /\ queue' = BagRemove(queue, e)
    /\ UNCHANGED <<cart, ver, intent, view, shownVer, badge, isUpdating, cartInit,
                   visible, height, addBtn, flipped, imagesPending, net, acts>>

FlipTimer(e) ==
    /\ e.kind = "flipTimer"
    /\ flipLoading' = FALSE
    /\ flipped' = TRUE
    /\ queue' = BagRemove(queue, e)
    /\ UNCHANGED <<cart, ver, intent, view, shownVer, badge, isUpdating, cartInit,
                   visible, height, addBtn, qtyError, imagesPending, net, acts>>

\* Mutant: cartUpdateCallback only counts, for every method.
CartUpdatedCountOnly(e) ==
    /\ e.kind = "got" /\ e.cb = "cartUpdate"
    /\ UpdateCountPrice(e.snap)
    /\ UNCHANGED <<view, shownVer, imagesPending, visible, height, net,
                   cartInit>>
    /\ queue' = BagRemove(queue, e)
    /\ UNCHANGED <<cart, ver, intent, isUpdating, addBtn, qtyError, flipLoading,
                   flipped, acts>>

\* cartUpdateCallback: updateCountPrice, then per method: flip only counts,
\* modal builds, drawer builds and shows the drawer if hidden.
CartUpdated(e) ==
    /\ e.kind = "got" /\ e.cb = "cartUpdate"
    /\ UpdateCountPrice(e.snap)
    /\ IF Method = "flip"
       THEN UNCHANGED <<view, shownVer, imagesPending, visible, height, net,
                        cartInit>>
       ELSE BuildCart(e.snap, e.v, Method = "drawer")
    /\ queue' = BagRemove(queue, e)
    /\ UNCHANGED <<cart, ver, intent, isUpdating, addBtn, qtyError, flipLoading,
                   flipped, acts>>

\* flipCartUpdateCallback and the getCart(buildCart) after the settle delay.
CartRebuilt(e) ==
    /\ e.kind = "got" /\ e.cb \in {"flipUpdate", "build"}
    /\ BuildCart(e.snap, e.v, FALSE)
    /\ queue' = BagRemove(queue, e)
    /\ UNCHANGED <<cart, ver, intent, badge, isUpdating, addBtn, qtyError,
                   flipLoading, flipped, acts>>

\* The 250ms removal delay of updateQuantity expires: Shopify.changeItem.
RemoveTimer(e) ==
    /\ e.kind = "removeTimer"
    /\ Send([kind |-> "change", line |-> e.line, qty |-> e.qty, key |-> e.key])
    /\ queue' = BagRemove(queue, e)
    /\ UNCHANGED <<cart, ver, intent, view, shownVer, badge, isUpdating, cartInit,
                   visible, height, addBtn, qtyError, flipLoading, flipped,
                   imagesPending, acts>>

\* adjustCartCallback: updateCountPrice; an empty cart hides the drawer;
\* isUpdating is cleared and the cart rebuilt after a 150ms delay.
ChangeDone(e) ==
    /\ e.kind = "changeOk"
    /\ UpdateCountPrice(e.snap)
    /\ IF ItemCount(e.snap) = 0 /\ Method # "modal" THEN HideDrawer
       ELSE UNCHANGED <<visible, height>>
    /\ queue' = BagAdd(BagRemove(queue, e), [kind |-> "settleTimer"])
    /\ UNCHANGED <<cart, ver, intent, view, shownVer, isUpdating, cartInit, addBtn,
                   qtyError, flipLoading, flipped, imagesPending, net, acts>>

\* The change request failed: Shopify.onError alerts; nothing is reset.
ChangeFailed(e) ==
    /\ e.kind = "changeErr"
    /\ queue' = BagRemove(queue, e)
    /\ UNCHANGED <<cart, ver, intent, view, shownVer, badge, isUpdating, cartInit,
                   visible, height, addBtn, qtyError, flipLoading, flipped,
                   imagesPending, net, acts>>

\* Mutant: the settle timer clears isUpdating but does not rebuild the cart.
SettleNoRebuild(e) ==
    /\ e.kind = "settleTimer"
    /\ isUpdating' = FALSE
    /\ queue' = BagRemove(queue, e)
    /\ UNCHANGED <<cart, ver, intent, view, shownVer, badge, cartInit, visible,
                   height, addBtn, qtyError, flipLoading, flipped,
                   imagesPending, net, acts>>

\* The 150ms settle timer: isUpdating = false; Shopify.getCart(buildCart).
Settle(e) ==
    /\ e.kind = "settleTimer"
    /\ isUpdating' = FALSE
    /\ Send([kind |-> "get", cb |-> "build"])
    /\ queue' = BagRemove(queue, e)
    /\ UNCHANGED <<cart, ver, intent, view, shownVer, badge, cartInit, visible,
                   height, addBtn, qtyError, flipLoading, flipped,
                   imagesPending, acts>>


-----------------------------------------------------------------------------
(* The specification *)

Init ==
    /\ cart = InitCart
    /\ ver = 0
    /\ view = <<>>
    /\ shownVer = 0
    /\ badge = ItemCount(InitCart)
    /\ isUpdating = FALSE
    /\ cartInit = FALSE
    /\ visible = FALSE
    /\ intent = "none"
    /\ height = "auto"
    /\ addBtn = "idle"
    /\ qtyError = FALSE
    /\ flipLoading = FALSE
    /\ flipped = FALSE
    /\ imagesPending = FALSE
    /\ net = EmptyBag
    /\ queue = EmptyBag
    /\ acts = 0

Next ==
    \/ \E i \in 1..Len(view), add \in BOOLEAN : ClickQtyAdjust(i, add)
    \/ \E i \in 1..Len(view), v \in Typed : TypeQty(i, v)
    \/ \E i \in 1..Len(view) : ClickRemove(i)
    \/ \E k \in Variants, q \in AddQtys : SubmitAddForm(k, q)
    \/ ClickToggle \/ PressEscape \/ ClickCloseModal \/ ClickFlipCart
    \/ ClickVariantOption
    \/ ResizeWindow
    \/ \E r \in DOMAIN net : Serve(r) \/ Fail(r)
    \/ \E e \in DOMAIN queue :
          \/ ItemAdded(e) \/ ItemError(e) \/ FlipTimer(e) \/ CartUpdated(e)
          \/ CartRebuilt(e) \/ RemoveTimer(e) \/ ChangeDone(e)
          \/ ChangeFailed(e) \/ Settle(e) \/ Loaded(e)
    \/ ImagesLoaded

\* The server answers every request and the browser runs every ready
\* callback; the shopper, transport failures and image loads are not fair.
Fairness ==
    /\ WF_vars(\E r \in DOMAIN net : Serve(r))
    /\ WF_vars(\E e \in DOMAIN queue :
                 \/ ItemAdded(e) \/ ItemError(e) \/ FlipTimer(e)
                 \/ CartUpdated(e) \/ CartRebuilt(e) \/ RemoveTimer(e)
                 \/ ChangeDone(e) \/ ChangeFailed(e) \/ Settle(e) \/ Loaded(e))

Spec == Init /\ [][Next]_vars /\ Fairness

-----------------------------------------------------------------------------
(* Properties *)

Values == Int \cup {NaN}

TypeOK ==
    /\ cart \in Seq(Line)
    /\ ver \in Nat /\ shownVer \in Nat /\ badge \in Nat
    /\ \A i \in 1..Len(view) :
          view[i] \in [key : Variants, qty : Values, removed : BOOLEAN]
    /\ {isUpdating, cartInit, visible, qtyError, flipLoading, flipped,
        imagesPending} \subseteq BOOLEAN
    /\ intent \in {"none", "open", "closed"}
    /\ height \in {"auto", "content", "zero"}
    /\ addBtn \in {"idle", "adding", "added"}
    /\ IsABag(net) /\ IsABag(queue)
    /\ acts \in 0..MaxActs

\* The change pipeline of updateQuantity: removal timer, change request,
\* change response.
Copies(B, kinds) == BagCardinality([m \in {x \in DOMAIN B : x.kind \in kinds}
                                      |-> B[m]])

ChangesInFlight ==
    Copies(queue, {"removeTimer", "changeOk", "changeErr"}) +
    Copies(net, {"change"})

\* Busy exclusion (isUpdating checked by the stepper handlers): at most one
\* quantity change is anywhere between the click and its response, and
\* isUpdating is set throughout.
SerializedChanges ==
    /\ ChangesInFlight <= 1
    /\ ChangesInFlight > 0 => isUpdating

\* A change request served by /cart/change.js alters the line of the row the
\* shopper clicked: the data-line of the rendered row still designates that
\* row's item when the request reaches the server.
ChangeHitsIntendedItem ==
    [][\A r \in DOMAIN net :
          (Serve(r) /\ r.kind = "change" /\ r.line \in 1..Len(cart))
             => cart[r.line].key = r.key]_vars

\* isUpdating is eventually cleared after it was set: the synchronizer
\* returns to idle whatever the server answers, so the shopper can retry.
BusyEventuallyClears == isUpdating ~> ~isUpdating

\* Every mutation of the server cart is eventually rendered in the cart
\* surface: buildCart runs on a snapshot at least that new, after the settle
\* delay of a change or after an add (drawer and modal methods).
MutationRendered == \A n \in 1..MaxActs : (ver = n) ~> (shownVer >= n)

\* Whenever nothing is in flight or pending, the cart-count badge shows the
\* server's item count: no stale response is applied last.
Quiet == net = EmptyBag /\ queue = EmptyBag

BadgeCurrentWhenQuiet == Quiet => badge = ItemCount(cart)

\* Escape and the toggle close the surface (spec section 4.3): once the
\* shopper closed it, no callback, timer or image load shows it again until
\* the shopper opens it or adds an item.
ClosedStaysClosed ==
    [][intent = "closed" /\ intent' = "closed" /\ ~visible => ~visible']_vars

\* The flip button's loader (flip--is-loading, set by formOverride) never
\* outlives the adds that set it, on a network that may fail them: while it
\* shows, an /cart/add.js request is unanswered, or its itemAddedCallback,
\* its 600 ms flip timer or its itemErrorCallback is still to run.  With
\* the server answering and the browser running queued callbacks (Spec's
\* fairness), the loader is therefore eventually removed.
FlipLoaderOwned ==
    flipLoading =>
        \/ \E r \in DOMAIN net : r.kind = "add"
        \/ \E e \in DOMAIN queue : e.kind \in {"addOk", "addErr", "flipTimer"}

\* Spec section 8, empty-cart convergence: once mutations have emptied the
\* server cart, the page eventually renders that empty cart and, in drawer
\* and flip mode, collapses the surface to zero height unless the shopper
\* has it open (section 4.2: the surface is only hidden when it was not
\* visible). adjustCartCallback hides the drawer, the settle timer refetches
\* and buildCart's empty branch sizes a hidden, built drawer to 0px.
EmptyCartConverges ==
    (ver > 0 /\ cart = <<>>)
        ~> \/ cart # <<>>
           \/ /\ view = <<>> /\ shownVer = ver
              /\ (Method # "modal" /\ ~visible) => height = "zero"

\* A shopper who opened the cart eventually sees it, unless they close it
\* first: drawer and flip show it at once; the modal's first open fetches,
\* builds and waits for the cart images, and a later open calls sizeModal.
\* The image load handlers are the browser's, so the property assumes they
\* fire (weak fairness on ImagesLoaded); without it the modal may stay
\* hidden.
ShownWhenAsked ==
    WF_vars(ImagesLoaded) => ((intent = "open") ~> (visible \/ intent # "open"))

-----------------------------------------------------------------------------
(* Refinement of CartSync *)

\* The change the shopper asked for and the server has not yet answered:
\* the removal timer carrying it, or the change request in flight.
PendingChanges ==
    {[key |-> e.key, qty |-> e.qty] :
        e \in {x \in DOMAIN queue : x.kind = "removeTimer"}}
    \cup {[key |-> r.key, qty |-> r.qty] :
        r \in {x \in DOMAIN net : x.kind = "change"}}

\* The line of the item a change was asked for, and any line.
ItemLine(c, ch) == IF Holds(c, ch.key) THEN {IndexOf(c, ch.key)} ELSE {}
AnyLine(c, ch) == 1..Len(c)

SyncByItem == INSTANCE CartSync WITH scart <- cart, busy <- isUpdating,
                                     pending <- PendingChanges,
                                     Aim <- ItemLine
SyncByLine == INSTANCE CartSync WITH scart <- cart, busy <- isUpdating,
                                     pending <- PendingChanges,
                                     Aim <- AnyLine

\* The page implements the synchronizer's serialization contract: isUpdating
\* is set by exactly the click that starts a change, /cart/change.js applies
\* the requested quantity, adds are independent, and the settle timer clears
\* isUpdating only after the change was answered.
SyncSerialized == SyncByLine!SSpec

\* The page implements the full contract: in addition, each change alters
\* the line of the item whose row the shopper clicked.
SyncRefined == SyncByItem!SSpec

====
