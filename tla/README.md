# TLA+ models of the theme's ajax cart

The source is one file, `src/shopify_tools/theme/assets/theme.js`. Its stateful
part is the ajax cart, lines 37–1166: the `Shopify.*` request helpers and the
`ajaxifyShopify` plugin. The rest of the file is bundled libraries and
presentational widgets. Line numbers below refer to that file.

## 1. Inventory

| Component | Code | State it keeps | Operations |
|---|---|---|---|
| Cart Client | `Shopify.addItemFromForm`, `getCart`, `changeItem`, `updateCartNote`, `onError` (116–246) | none; every call is one `jQuery.ajax` round trip | add, get, change, update note; success/error callbacks |
| Remote cart (external) | `/cart.js`, `/cart/add.js`, `/cart/change.js`, `/cart` (spec §6) | the ordered lines of the cart | served in any order, each one atomically |
| Cart Synchronizer | `adjustCart`, `updateQuantity`, `adjustCartCallback` (881–1039) | `isUpdating` | stepper click, typed quantity, remove link, 250 ms removal delay, change callback, 150 ms settle timer |
| Add-to-cart form | `formOverride`, `itemAddedCallback`, `itemErrorCallback`, `cartUpdateCallback`, `updateCountPrice` (371–382, 636–706) | button classes, `.qty-error`, cart-count badge | submit, added, error, refresh |
| Presentation Controller | `flipSetup`, `modalSetup`, `drawerSetup`, `show/hide/size{Drawer,Modal}`, `setToggleButtons`, Escape handler, `loadCartImages` (346–634, 708–745) | `is-visible` on the drawer or modal, the drawer's inline height, flip classes | toggle, Escape, View Cart link, variant click, resize, image load |
| Line-Item View Builder | `buildCart`, `cartTemplate` (747–879) | the rendered rows with their `data-line`, `cartInit` | empty render, `/cart` load, Handlebars rows |
| Money Formatter | `Shopify.formatMoney` (57–106) | none (pure) | format cents with a template |
| Quantity steppers | `validateQty`, `qtySelectors`, `createQtySelectors` (1041–1158), `theme.Product.qtySelectors` (2303–2360) | input values, sticky `qtyMin` | add or minus click, clamping |
| Theme wiring | `timber.initCart` (1770–1791), `theme.Product` init (2244–2258), `cookiesEnabled` | settings | `ajaxifyShopify.init`, which runs twice on product pages |
| Product variant controls | `theme.Product`: `init`, `addVariantInfo`, `addQuantityButtons`, `initProductVariant`, `productVariantCallback` (2263–2598) | add button `disabled`, payment button, `$quantityElements`, stock and incoming notices | option change (via `Shopify.OptionSelectors`), stepper click, typing |
| Sections and maps | `theme.Sections` register/load/unload (1187–1281), `theme.Maps` (2001–2172) | `instances`; the closure's `apiStatus`, `mapsToLoad`; `theme.$currentMapContainer` | construct, section load/unload, `getScript` done, geocode done, `gm_authFailure` |
| Other widgets, libraries | `timber.*` navigation, slideshow, zoom; enquire, equalHeights, imagesLoaded | private DOM state | out of scope (spec §1) |

**How the parts interact.** The page is single-threaded. Handlers run to
completion. The interleavings come from the browser:

- requests run concurrently and can be served and answered in any order;
- `setTimeout` callbacks (250 ms removal delay, 150 ms settle, 600 ms flip)
  and image `load` events are queued on the same event loop.

The add path works like this. Submit sends `/cart/add.js`. On success it
requests `/cart.js`, whose callback updates the badge, then calls
`buildCart`. With `useCartTemplate` (the setting the theme uses), `buildCart`
loads `/cart`, and that load's callback replaces the rows. The change path
works like this. A click sets `isUpdating`. After 250 ms the click sends
`/cart/change.js`. The response updates the badge and, if the cart is empty,
hides the drawer. After 150 ms more, `isUpdating` is cleared and
`/cart.js` → `buildCart` → `/cart` re-renders the rows.

**What is hard.**
- The rows' `data-line` values come from the last render. A removal shifts
  the lines on the server, and nothing stops a click between the settle
  timer and the re-render.
- `isUpdating` is the only exclusion. It is set by `updateQuantity`, cleared
  only on the success path, and not tested by the remove link.
- Responses are applied in arrival order with no version check.
- `getCart` has no error handler. A change error never resets the flag.
- The image `load` handlers can fire late (after the modal was closed) or
  never.

**What makes each component correct.**
- Synchronizer: at most one change in flight; a change hits the row the
  shopper clicked; it always returns to idle.
- Add form and view: every mutation is eventually rendered and counted; a
  quiet page shows the server's cart.
- Presentation: the surface is only shown on request; a visible drawer is
  not collapsed; the flip face matches the variant that was added.
- Steppers: the value never drops below the minimum, and invalid input
  becomes 1.
- Formatter: it matches a reference definition of the decimal output.

## 2. Modules

- **`AjaxCart.tla`** models the composed system: the remote cart, the
  request layer, the synchronizer, the add form, rendering and the surface of
  all three methods. Variables and their code:
  - `cart`: the server's cart.
  - `view`: the rows with `data-line` = position, the input value, and
    `is-removed`.
  - `isUpdating` and `cartInit`: the plugin's variables of the same names.
  - `visible`: `is-visible` on the drawer or modal container.
  - `height`: the drawer's inline style.
  - `badge`: `.cart-count`.
  - `addBtn`, `qtyError`, `flipLoading`, `flipped`: the classes and the
    error block.
  - `imagesPending`: image `load` handlers are bound.
  - `net`: a multiset of requests the server has not served.
  - `queue`: a multiset of ready callbacks and expired timers.
  - `ver` and `shownVer`: auxiliary history (mutations applied; the newest
    version ever rendered).
  - `intent`: auxiliary history; what the shopper last asked of the surface:
    `"open"` (toggle on a hidden surface, flip), `"closed"` (toggle on a
    visible one, Escape, close button) or `"none"`.

  There is one action per handler (`ClickQtyAdjust`, `TypeQty`,
  `ClickRemove`, `SubmitAddForm`, `ClickToggle`, `PressEscape`, `ClickCloseModal`,
  `ClickFlipCart`, `ClickVariantOption`, `ResizeWindow`) and one per callback
  (`ItemAdded`, `ItemError`, `FlipTimer`, `CartUpdated`, `CartRebuilt`,
  `RemoveTimer`, `ChangeDone`, `ChangeFailed`, `Settle`, `Loaded`,
  `ImagesLoaded`). Each callback includes everything its function calls
  (`buildCart`, `showDrawer`, `hideDrawer`, `updateCountPrice`, sizing).
  `Serve` and `Fail` are the server's answer and a transport failure.
  `PROJECT.json` "map" gives each definition's lines.
- **`CartServer.tla`** holds the remote cart of spec §6 as operators shared
  by the other modules: a cart is a sequence of lines; `AddLine` merges by
  variant, `ChangeLine` addresses a 1-based line and removes it at 0 (the
  lines after it shift); `CanAdd` and `CanChange` are the stock check that
  answers 422.
- **`CartSync.tla`** is the abstract specification of the synchronizer: an
  idle flag, at most one pending change requested while idle, applied
  atomically to the current cart or rejected, and adds at any time. The
  constant operator `Aim(cart, change)` is the set of lines a change may hit.
  `AjaxCart` ends with two refinement mappings onto it (`cart` ↦ `scart`,
  `isUpdating` ↦ `busy`, the `{key, qty}` of each removal timer and each
  change request in flight ↦ `pending`): `SyncSerialized` with any line, and
  `SyncRefined` with the line that holds the clicked item.
- **`CartNote.tla`** models the note textarea (`adjustCart`, 1000–1008) and
  `Shopify.updateCartNote`: each change sends `/cart/update.js`; requests are
  served in any order; a lossy network can fail them into `onError`.
- **`MoneyFormat.tla`** models `Shopify.formatMoney` and
  `formatWithDelimiters` (57–106) on digit sequences: `ToFixed` is
  `Number.toFixed` for precision 2 and 0 (half up), `Delimit` is the
  thousands regex. `Reference` is an independent definition (integer and
  fraction by division, `RECURSIVE` grouping in threes). The state machine
  makes one `Format` call and stops.
- **`QtyStepper.tla`** models the standalone steppers (`qtySelectors` and
  `theme.Product.qtySelectors`, 1041–1108 and 2303–2367): render, the
  adjuster click with its sticky `qtyMin` (1 on product pages), and typing.
- **`ProductSection.tla`** models the product section: it `INSTANCE`s
  `QtyStepper` for the quantity selector and adds `productVariantCallback`.
  `selected` is the option combination, `dom` a record of what the callback
  writes: `disabled`, `pay`, `qty` (`$quantityElements` visible), `stock`
  and `stockOf` (the "only N left" notice and whose count it shows),
  `incoming`, `content` (`$variantIncoming`'s content: its message element
  or a date written over it) and `msgDate` (the message element's date).
  The three branches are `InStock`, `SoldOut` and `Unavailable`; `Known` is
  `addVariantInfo` (without either setting the stock fields are undefined
  and every comparison on them is false). `Init` is `Product.init`: the
  callback for the initial variant, then `addQuantityButtons` shows the
  quantity selector. `SelectOption` is an option change; `AdjusterClick`
  and `TypeQty` are the stepper's steps, enabled only while the selector is
  visible. `Shopify.OptionSelectors` is not in the repository; it is taken
  to call the callback once per option change.
- **`NavMenu.tla`** models `timber.alignMenu` and the resize callback of
  `timber.responsiveNav` (1667–1726). `nav` and `more` are the items in the
  navigation and in `#moreMenu--list`; `AlignStep` is one turn of the
  `$.each` (large-hide items add no width and are not counted in `i`),
  `Cut` folds it over the children, `AlignMenu` adds the early return
  below `bpLarge` and the bail when `i <= 1`. `Resize` is the debounced
  callback: `Restore` appends the More items back, then `AlignMenu` runs at
  the new viewport. `Reference` lays the menu out independently (the longest
  prefix whose visible width fits, More only with two visible items).
- **`ThemeMaps.tla`** models `theme.Sections` and `theme.Maps`. The
  closure of `theme.Maps` is shared by every map section: `apiStatus`,
  `mapsToLoad` (never emptied) and the `getScript` in flight. An instance is
  a section with the number of times it was constructed. `Ctor` is the
  constructor as a function on the loader's state, folded over the sections
  in document order by `Construct` (register) or applied to one section
  (`SectionLoad`). `ScriptLoaded` is the `getScript().then` (`initAllMaps`
  over the queue for the first fetch, `createMap` for a later one);
  `Geocoded` is the geocoder callback; `AuthFailure` is `gm_authFailure`.
  `created` counts `createMap` calls per instance.
- **`MCAjaxCart.tla`**, **`MCMoneyFormat.tla`**, **`MCProductSection.tla`**, **`MCNavMenu.tla`** and **`MCThemeMaps.tla`** give
  model values and the sets a cfg cannot write (initial carts, amount ranges).

Abstractions:
- A row keeps only the variant and the input value. Titles, images and prices
  are formatting.
- Typed input is an integer or the model value `NaN`. The check at 944
  accepts exactly the integer strings.
- Hidden `is-removed` rows are not clickable.
- Timers are unordered among themselves. No run below depends on two timers
  with the same delay being reordered.

## 3. Runs

All runs use two or three variants, a stock of 2 per variant (more is
answered 422), add quantity 1, and an initial cart of one unit per variant.
The number of shopper actions is bounded (`MaxActs`, 3–5). Each bound is
large enough for the case it targets to occur: a removal that shifts a line,
a second click during a change, and a request overtaken by another. The runs
use `CHECK_DEADLOCK FALSE` because once the bounded shopper stops, the page
legitimately idles.

| Run | cfg | Expect | Shows |
|---|---|---|---|
| drawer_serialized | DrawerSerialized | pass | With steppers, typed values, the product form and failing requests, at most one quantity change is between click and response, and `isUpdating` is set throughout (`SerializedChanges`). |
| flip_serialized | FlipSerialized | pass | With the flip method and requests that may fail, the flip loader never outlives the adds that set it: while it shows, an add or its success, flip-timer or error callback is pending, so under the fairness below it is eventually removed (`FlipLoaderOwned`). The page implements `CartSync` with any line as target (`SyncSerialized`): every change is requested while idle, is alone in flight, and is applied atomically to the current cart. |
| drawer_rendered | DrawerRendered | pass | With remove links and adds, on a reliable network, every mutation is eventually rendered (`MutationRendered`). |
| modal_rendered | ModalRendered | pass | The same for the modal with the Handlebars template; and, if image loads are fair, a surface the shopper asked for is eventually shown unless they close it first (`ShownWhenAsked`). |
| stale_line | StaleLine | violation | Remove v1, then, after the settle timer and before the re-render, press '−' on v2's row: the server deletes v3 (`ChangeHitsIntendedItem`). |
| busy_stuck | BusyStuck | violation | '+' past the stock limit gets a 422, and `isUpdating` is never cleared (`BusyEventuallyClears`). |
| remove_unguarded | RemoveUnguarded | violation | A remove click during a stepper change starts a second change (`SerializedChanges`). |
| stale_badge | StaleBadge | violation | A drawer-open `/cart.js` response that was overtaken by the add is applied last, and the badge shows an old count (`BadgeCurrentWhenQuiet`). |
| double_open | DoubleOpen | violation | Two toggles before the first render fetch `/cart.js` twice; the stale second render revives a removed row, and '−' on it removes another item (`SyncRefined`). |
| modal_reopen | ModalReopen | violation | Escape closes the modal, but the image `load` of a render still in progress calls `sizeModal`, which shows it again (`ClosedStaysClosed`). |
| money_format | MoneyFormat | pass | `formatMoney` equals the reference for every placeholder and every amount in 0..2500, 999.40..1000.60, and around 9999.50, 999999.99 and 1,000,000.00 (`FormatMatchesReference`). |
| stepper_valid | StepperValid | pass | On the product section (`MCProductSection`), on product and other pages, with a negative, 0, 3 or garbage typed, after any sequence of option changes among an in-stock variant (3 left), a sold-out one with incoming stock, a backorder one at quantity 0 with incoming stock and a combination without variant, the add button, payment button and "only N left" notice describe the combination selected (`ControlsMatchSelection`). |

The findings in `PROJECT.json` explain each violation against spec §3, §5 and
§7.

**Fairness.** `Spec` has weak fairness on two steps:
- the server serving some request (the server eventually answers);
- the event loop running some ready callback (the browser eventually runs
  queued callbacks and timers).

The shopper, transport failures and image `load` events get no fairness.
`ShownWhenAsked` states fairness of `ImagesLoaded` as its hypothesis
(`WF_vars(ImagesLoaded) => ...`): `sizeModal` runs only from an image
`load` event, so nothing in the code shows the modal without one. The
code cannot rely on images loading, and the shopper may stop. Weak fairness
on the combined steps is enough because the bounded shopper generates
finitely many events.

`FlipSerialized` uses `MaxActs` 4, since the refinement needs a change,
a re-render and a second click to be interesting; it reaches 1.1M states.
`MoneyFormat` covers every amount whose formatting crosses a rounding or
grouping boundary up to 10^8 cents. `StepperValid` allows six clicks,
keystrokes or option changes: enough to reach the sticky minimum from both
pages, and to visit every variant from every other (the shortest
counterexamples above take two or three changes). The four combinations
cover the three branches of the callback and both ways a notice is shown.

**Refinement.** `SyncSerialized` holds: the code implements the abstract
protocol whenever the target is left open. `SyncRefined` does not, and the
counterexample is the `double_open` finding; the same mapping also fails on
`stale_line`'s shifted line. Stating both separates what the `isUpdating`
flag does guarantee (serialisation) from what it does not (the target).

**Checks kept outside the run list.** The run list is limited to twelve
runs, so the following checks are cfgs that are not listed as runs. The
disagreements were found while modelling, and the passing checks' mutants
were run by hand. The hazards in `PROJECT.json` record each of them:
- `getCart` has no error callback (204): with `Lossy` TRUE and the
  `DrawerRendered` settings, `MutationRendered` fails when the `/cart.js`
  after an add is lost.
- `ProductSection` with `StepperNegative.cfg`: a typed negative quantity
  passes `validateQty`, and '+' then writes 0 on a product page
  (`StepperWritesValid`, 2360).
- `CartNote` with `NoteReorder.cfg`: two note edits served in the other
  order leave the older note saved (`NoteSavedWhenQuiet`, 1007).
- `EmptyStale.cfg` (the `DrawerRendered` settings): two removals empty the
  cart, but the `/cart` load of the first settle is applied after the empty
  render and shows v1's row again while the cart is empty
  (`EmptyCartConverges`, 851).
- `QtyHidden.cfg` (`MCProductSection`, the `StepperValid` settings):
  `QtyShownWhenAvailable` fails. Selecting the sold-out variant hides the
  quantity selector and no branch shows it again, so going back to the
  in-stock variant leaves it without one (2556).
- `IncomingStale.cfg` (the same settings): `IncomingShowsSelected` fails.
  Starting on the sold-out variant, `.html(...)` replaces the content of
  `$variantIncoming` and detaches the cached message element; selecting the
  backorder variant writes its date into the detached element and shows
  the sold-out variant's date (2552). A combination without variant also
  leaves the notice visible (2590).
- `NavAlign.cfg` (`MCNavMenu`: four items, one large-hide; usable widths
  2, 3, 4, 5 and 9, so that the cut falls before, on and after each item
  boundary, and one viewport below the breakpoint; four resizes) passes
  `LayoutMatchesFreshLoad`: after any sequence of resizes the menu is what a
  fresh load at the current viewport shows. `AlignMenuNoBail` (no bail for
  a single moved item) breaks it.
- `MapsLoad.cfg` (`MCThemeMaps`, two keyed sections, editor events, two
  constructions each) passes: `CreatedOnce` (no instance gets two
  `createMap` calls) and `MapsEventuallyLocated` (every keyed section on the
  page eventually has its map geocoded). Replacing `Ctor` by `CtorRefetch`
  (fetch again while loading) breaks the first; `ScriptLoadedOwnOnly`
  (no `initAllMaps`) breaks the second. With `GooglePreloaded` TRUE the
  liveness fails: the sections stay queued with `apiStatus` "loading"
  (2047). Under the same settings `NoMapForUnloaded` fails: a section
  unloaded while its geocode is pending is still built (2059); and
  `AuthErrorOnAll` fails: `gm_authFailure` marks only
  `$currentMapContainer`, not all maps as its comment says (2160).

## 4. Plan

Done so far: the synchronizer, the surfaces, the modal close button, the
lossy `/cart.js` run, the cart note, the liveness of the surface
(`ShownWhenAsked`), the empty-cart convergence and the sections/maps
loader. Remaining, in order of importance:
1. Listed runs for `MapsLoad.cfg`, `NavAlign.cfg`, `QtyHidden.cfg` and `IncomingStale.cfg`
   (the run list is at its limit of twelve).
2. The flip face matches the variant that was added (`flipped` against the
   last `ItemAdded`).
3. The add button settling after an error (`addBtn` returns to idle).
4. Larger instances of the refinement check (three variants) if they stay within
   the time bound.

## 5. Not modelled

- The cart form's submit veto while `isUpdating` (889–893): it only stops a
  page navigation, which leaves the model.
- The double `ajaxifyShopify.init` on product pages (2246): whether both
  calls bind the same selectors depends on Liquid markup not in the repository.
- `Shopify.addItem` and `Shopify.getProduct`: no caller.
- The overlay click (the same `hideModal` as Escape) and the modal's
  resize/orientation handler (re-centres a visible modal only).
- The string branch of `formatMoney` (`cents.replace('.', '')`): the cart
  always passes numbers.

- The text of alerts, titles, prices and URLs: formatting.
- Scroll position and caret position: layout only.
- The navigation menus' handlers (`mobileNav`, `accessibleNav`, `toggleMenu`,
  1460–1666 and 1729–1768): they toggle classes and ARIA attributes on hover,
  touch and focus, with no state shared with anything else. The growth of
  their handler lists on every resize and the window-load offset check that
  never runs are hazards in `PROJECT.json`, not modelled: they are DOM
  handler bookkeeping and dropdown geometry. The slideshow, zoom and search widgets
  likewise.
- In `theme.Product`: prices, unit price, compare price, SKU and variant
  image (formatting); the store-specific `CustomVariantQuantity` and
  `#variantQuantityDescription` texts; thumbnails, zoom and breakpoints.
- In `theme.Maps`: the resize listener and the map's styling and marker.
- The bundled libraries: only their events are used.
- The Liquid templates that decide which selectors exist: they are not in the
  repository, so `RemoveLinks` and `AddForm` are constants of the model.
