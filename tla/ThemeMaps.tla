------------------------------ MODULE ThemeMaps ------------------------------
(***************************************************************************)
(* The map sections of theme.js: theme.Sections (register, section load    *)
(* and unload events of the theme editor) and theme.Maps, whose closure    *)
(* shares one apiStatus and one mapsToLoad queue between every Map        *)
(* instance of the page.  The Google Maps script is fetched with          *)
(* $.getScript and the address is geocoded asynchronously: both are       *)
(* callbacks that run later, in any order.                                 *)
(* An instance is a section together with the number of times the section *)
(* was constructed, so that a reloaded section is a new instance.         *)
(***************************************************************************)
EXTENDS Naturals, FiniteSets, Sequences, SequencesExt, Bags, BagsExt

CONSTANTS
    Sections,        \* the map sections of the page
    Order,           \* the sections in document order (register's .each)
    KeyOf,           \* KeyOf[s]: "valid", or "none" for a missing/empty key
    GooglePreloaded, \* window.google is defined before any map section
    ScriptTagged,    \* a script whose src contains key + "&" is on the page
    Editor,          \* the theme editor sends section load/unload events
    MaxGen           \* bound on constructions of one section

VARIABLES
    registered,  \* sections.register('map-section', theme.Maps) has run
    onPage,      \* sections whose container is in the document
    gen,         \* gen[s]: constructions of section s so far
    instances,   \* theme.Sections' instances (map sections only)
    apiStatus,   \* theme.Maps' apiStatus: "null", "loading" or "loaded"
    mapsToLoad,  \* theme.Maps' mapsToLoad queue
    google,      \* window.google is defined
    scripts,     \* bag of $.getScript calls whose .then has not run
    geo,         \* bag of instances whose geocode callback has not run
    created,     \* createMap calls per instance (auxiliary)
    maps,        \* instances whose google.maps.Map was built
    current,     \* theme.$currentMapContainer: the last section constructed
    authShown    \* sections showing gm_authFailure's error

vars == <<registered, onPage, gen, instances, apiStatus, mapsToLoad, google,
          scripts, geo, created, maps, current, authShown>>

Inst == Sections \X (1..MaxGen)

-----------------------------------------------------------------------------
(* The Map constructor, as a step on the loader's state *)

\* Mutant: the constructor fetches the script even while it is loading.
CtorRefetch(st, i) ==
    LET s == i[1] IN
    IF KeyOf[s] # "valid" THEN [st EXCEPT !.current = s]
    ELSE IF st.status = "loaded"
    THEN IF ScriptTagged
         THEN [st EXCEPT !.current = s, !.calls = Append(st.calls, i)]
         ELSE [st EXCEPT !.current = s,
                         !.scripts = BagAdd(st.scripts, [all |-> FALSE, inst |-> i])]
    ELSE [st EXCEPT !.current = s,
                    !.queue = Append(st.queue, i),
                    !.status = "loading",
                    !.scripts = IF ~st.google
                                THEN BagAdd(st.scripts, [all |-> TRUE, inst |-> i])
                                ELSE st.scripts]

\* Map(container): the container becomes theme.$currentMapContainer; a
\* missing key returns at once.  Once the API is loaded the script is looked
\* up by "key&" (the theme's own script URL ends with the key, so only a
\* foreign script matches) and createMap runs now or after a new getScript.
\* Otherwise the instance is queued and the first one to find apiStatus not
\* "loading" fetches the script, unless window.google is already defined.
Ctor(st, i) ==
    LET s == i[1] IN
    IF KeyOf[s] # "valid" THEN [st EXCEPT !.current = s]
    ELSE IF st.status = "loaded"
    THEN IF ScriptTagged
         THEN [st EXCEPT !.current = s, !.calls = Append(st.calls, i)]
         ELSE [st EXCEPT !.current = s,
                         !.scripts = BagAdd(st.scripts, [all |-> FALSE, inst |-> i])]
    ELSE [st EXCEPT !.current = s,
                    !.queue = Append(st.queue, i),
                    !.status = "loading",
                    !.scripts = IF st.status # "loading" /\ ~st.google
                                THEN BagAdd(st.scripts, [all |-> TRUE, inst |-> i])
                                ELSE st.scripts]

Loader == [status |-> apiStatus, queue |-> mapsToLoad, google |-> google,
           scripts |-> scripts, current |-> current, calls |-> <<>>]

\* createMap for each instance of calls: geolocate starts a geocode request.
CreateMaps(calls) ==
    /\ geo' = geo (+) ToBag(calls)
    /\ created' = [i \in Inst |-> created[i] +
                     Cardinality({k \in 1..Len(calls) : calls[k] = i})]

\* Construct the instances is, in order, and apply the result.
Construct(is) ==
    LET st == FoldLeft(Ctor, Loader, is) IN
    /\ apiStatus' = st.status
    /\ mapsToLoad' = st.queue
    /\ scripts' = st.scripts
    /\ current' = st.current
    /\ CreateMaps(st.calls)
    /\ instances' = instances \cup ToSet(is)
    /\ gen' = [s \in Sections |->
                 IF \E k \in 1..Len(is) : is[k][1] = s THEN gen[s] + 1
                 ELSE gen[s]]

-----------------------------------------------------------------------------
(* Steps *)

\* $(document).ready: sections.register('map-section', theme.Maps) creates
\* an instance for every map container, in document order.
Register ==
    /\ ~registered
    /\ registered' = TRUE
    /\ Construct([k \in 1..Len(Order) |-> <<Order[k], 1>>])
    /\ UNCHANGED <<onPage, google, maps, authShown>>

\* shopify:section:unload: the instances of the section are dropped and
\* their onUnload clears the map's resize listener.
SectionUnload(s) ==
    /\ Editor /\ registered
    /\ s \in onPage
    /\ onPage' = onPage \ {s}
    /\ instances' = {i \in instances : i[1] # s}
    /\ UNCHANGED <<registered, gen, apiStatus, mapsToLoad, google, scripts,
                   geo, created, maps, current, authShown>>

\* shopify:section:load: the new container is constructed again.
SectionLoad(s) ==
    /\ Editor /\ registered
    /\ s \notin onPage
    /\ gen[s] < MaxGen
    /\ onPage' = onPage \cup {s}
    /\ Construct(<<<<s, gen[s] + 1>>>>)
    /\ UNCHANGED <<registered, google, maps, authShown>>

\* Mutant: the first fetch builds only its own map, not the queue.
ScriptLoadedOwnOnly(r) ==
    /\ scripts' = BagRemove(scripts, r)
    /\ apiStatus' = "loaded"
    /\ google' = TRUE
    /\ CreateMaps(<<r.inst>>)
    /\ UNCHANGED <<registered, onPage, gen, instances, mapsToLoad, maps,
                   current, authShown>>

\* The getScript .then: apiStatus = 'loaded'; the first fetch runs
\* initAllMaps over the whole queue (which is never emptied), a later one
\* runs createMap of its own instance.
ScriptLoaded(r) ==
    /\ scripts' = BagRemove(scripts, r)
    /\ apiStatus' = "loaded"
    /\ google' = TRUE
    /\ CreateMaps(IF r.all THEN mapsToLoad ELSE <<r.inst>>)
    /\ UNCHANGED <<registered, onPage, gen, instances, mapsToLoad, maps,
                   current, authShown>>

\* The geocode callback of createMap: on OK the map, its marker and its
\* resize listener are built; otherwise the error is shown (design mode).
Geocoded(i, ok) ==
    /\ geo' = BagRemove(geo, i)
    /\ maps' = IF ok THEN maps \cup {i} ELSE maps
    /\ UNCHANGED <<registered, onPage, gen, instances, apiStatus, mapsToLoad,
                   google, scripts, created, current, authShown>>

\* Google calls gm_authFailure when it refuses the key of the loaded
\* script; in design mode the error replaces the content of
\* theme.$currentMapContainer.
AuthFailure ==
    /\ Editor
    /\ apiStatus = "loaded"
    /\ authShown = {}
    /\ current \in Sections
    /\ authShown' = {current}
    /\ UNCHANGED <<registered, onPage, gen, instances, apiStatus, mapsToLoad,
                   google, scripts, geo, created, maps, current>>

Init ==
    /\ registered = FALSE
    /\ onPage = Sections
    /\ gen = [s \in Sections |-> 0]
    /\ instances = {}
    /\ apiStatus = "null"
    /\ mapsToLoad = <<>>
    /\ google = GooglePreloaded
    /\ scripts = EmptyBag
    /\ geo = EmptyBag
    /\ created = [i \in Inst |-> 0]
    /\ maps = {}
    /\ current = "none"
    /\ authShown = {}

Next ==
    \/ Register
    \/ \E s \in Sections : SectionUnload(s) \/ SectionLoad(s)
    \/ \E r \in DOMAIN scripts : ScriptLoaded(r)
    \/ \E i \in DOMAIN geo, ok \in BOOLEAN : Geocoded(i, ok)
    \/ AuthFailure

\* The page registers its sections, and the browser eventually completes
\* every script fetch and geocode request; the editor's events are not fair.
Spec ==
    /\ Init /\ [][Next]_vars
    /\ WF_vars(Register)
    /\ WF_vars(\E r \in DOMAIN scripts : ScriptLoaded(r))
    /\ WF_vars(\E i \in DOMAIN geo, ok \in BOOLEAN : Geocoded(i, ok))

-----------------------------------------------------------------------------
(* Properties *)

\* createMap runs at most once per instance: the 'loading' status keeps a
\* second section from fetching the script again, so initAllMaps runs once,
\* and an instance built after the load is never in the queue it walks.
CreatedOnce == \A i \in Inst : created[i] <= 1

\* Every map section on the page with a key eventually has its map built or
\* its geocode answered, whichever section was constructed first and
\* whether the script was still loading: sections queued while loading are
\* served by initAllMaps, later ones fetch the script themselves.
MapsEventuallyLocated ==
    \A s \in Sections :
        (registered /\ s \in onPage /\ KeyOf[s] = "valid")
            ~> \/ s \notin onPage
               \/ /\ gen[s] > 0
                  /\ created[<<s, gen[s]>>] > 0
                  /\ <<s, gen[s]>> \notin DOMAIN geo

\* A map is only built for a section that is on the page: no createMap or
\* geocode callback is pending for an instance the editor has unloaded.
NoMapForUnloaded == \A i \in DOMAIN geo : i \in instances

\* gm_authFailure, "Show an auto error message on all map instances": once
\* it ran, every map section on the page with a key shows the error.
AuthErrorOnAll ==
    authShown # {} => \A s \in onPage : KeyOf[s] = "valid" => s \in authShown

====
