------------------------------ MODULE Catalog ------------------------------
(***************************************************************************)
(* What the administrators keep in lists of which one entry is the         *)
(* default (currencies, themes, payment gateways, e-mail providers), and   *)
(* what must agree with those lists: the prices of the plans, the themes   *)
(* of a timeline and of its date ranges, the two images of a theme, and    *)
(* the guest view of a timeline with its visibility.  Every handler reads, *)
(* checks, and writes in separate calls, and the default is moved by two   *)
(* writes: the new default first, then all the others.                     *)
(*                                                                         *)
(* Code: routes/currency.js, routes/pricing.js, routes/themes.js, the      *)
(* gateways of routes/payments.js, routes/emailProviders.js, PATCH /:slug  *)
(* and the theme routes of routes/timelines.js.                            *)
(***************************************************************************)
EXTENDS Naturals, FiniteSets

CONSTANTS
    Currency, Theme,  \* the entries that can be in the lists
    Gateway, Mailer,
    Standard,         \* the entries there are at first: each enabled, and the default
    Plan,             \* the pricing plans
    Override,         \* bound: the date ranges with a theme of their own
    Date,             \* the days such a range covers
    Request,          \* bound: requests in progress at once
    MaxFailures       \* bound: errors and restarts between two calls of a handler

Entry == Currency \cup Theme \cup Gateway \cup Mailer
Lists == {Currency, Theme, Gateway, Mailer}

ASSUME CatalogAssumption ==
    /\ Standard \subseteq Entry
    /\ \A l \in Lists : \E d \in l : Standard \cap l = {d}
    /\ Currency \cap Theme = {}
    /\ Gateway \cap Mailer = {}
    /\ (Currency \cup Theme) \cap (Gateway \cup Mailer) = {}
    /\ "none" \notin Theme
    /\ "plan" \notin Currency
    /\ MaxFailures \in Nat

VARIABLES
    entry,     \* the documents of the lists: there, enabled or published, default
    plan,      \* plan[p]: {} when there is none, else {"plan"} and the currencies with a price
    theme,     \* timeline.themeId
    override,  \* override[o]: the theme and the days of a TimelineThemeOverride
    image,     \* which images the (only) theme at hand has, by its document
    open,      \* the timeline's visibility is "public", and its guest view is on
    pc,        \* where each request stands
    memory,    \* what a request has read and what it is to write
    raced,     \* history: the areas in which requests have overlapped or failed halfway
    torn,      \* history: the lists whose default a failure has left half moved
    failures   \* bound

catalogVars == <<entry, plan, theme, override, image, open, pc, memory, raced, torn, failures>>

\* What one request can disturb of another.
Areas == {"currencies", "providers", "themes", "image", "timeline"}
Images == {"light", "dark"}
Settings == [public : BOOLEAN, guests : BOOLEAN]
Documents == [there : BOOLEAN, on : BOOLEAN, default : BOOLEAN]
NoOverride == [theme |-> "none", days |-> {}]
Nothing == [there |-> FALSE, on |-> FALSE, default |-> FALSE]
Idle == [area |-> "none"]

CatalogInit ==
    /\ entry = [d \in Entry |->
                  [there |-> d \in Standard, on |-> d \in Standard, default |-> d \in Standard]]
    /\ plan = [p \in Plan |-> {}]
    /\ theme \in {d \in Theme : entry[d].default}
    /\ override = [o \in Override |-> NoOverride]
    /\ image = {}
    /\ open = [public |-> FALSE, guests |-> FALSE]
    /\ pc = [r \in Request |-> "idle"]
    /\ memory = [r \in Request |-> Idle]
    /\ raced = {}
    /\ torn = {}
    /\ failures = 0

-----------------------------------------------------------------------------

\* A request of an area begins, with what its first call has read.
Begin(r, stage, known) ==
    /\ pc[r] = "idle"
    /\ pc' = [pc EXCEPT ![r] = stage]
    /\ memory' = [memory EXCEPT ![r] = known]
    /\ raced' = IF \E q \in Request : memory[q].area = known.area
                THEN raced \cup {known.area} ELSE raced

\* The request is over, with or without an answer that says so.
Over(r) ==
    /\ pc' = [pc EXCEPT ![r] = "idle"]
    /\ memory' = [memory EXCEPT ![r] = Idle]
    /\ UNCHANGED raced

Continue(r, stage) ==
    /\ pc' = [pc EXCEPT ![r] = stage]
    /\ UNCHANGED <<memory, raced>>

There(l) == {d \in l : entry[d].there}
Enabled(l) == {d \in There(l) : entry[d].on}
Default(l) == {d \in There(l) : entry[d].default}
ListOf(d) == CHOOSE l \in Lists : d \in l

\* A request has written a new default of a list, and not yet cleared the others.
Moving(r, l) ==
    /\ \/ pc[r] = "clearOthers"
       \/ pc[r] = "seedPrices" /\ memory[r].default
    /\ memory[r].entry \in l

\* updateMany({ _id: { $ne } }, { isDefault: false }), the second half of every change of
\* the default.
ClearOthers(r) ==
    LET d == memory[r].entry IN
    /\ pc[r] = "clearOthers"
    /\ entry' = [e \in Entry |-> IF e \in ListOf(d) \ {d} THEN [entry[e] EXCEPT !.default = FALSE]
                                 ELSE entry[e]]
    /\ torn' = torn \ {ListOf(d)}
    /\ Over(r)
    /\ UNCHANGED <<plan, theme, override, image, open, failures>>

-----------------------------------------------------------------------------
(* Currencies                                                              *)

\* A default currency is an enabled one.
StartCreateCurrency(r) ==
    /\ \E c \in Currency, default \in BOOLEAN, on \in BOOLEAN :
          /\ ~entry[c].there
          /\ entry' = [entry EXCEPT ![c] = [there |-> TRUE, on |-> on \/ default, default |-> default]]
          /\ Begin(r, "seedPrices", [area |-> "currencies", entry |-> c, default |-> default])
    /\ UNCHANGED <<plan, theme, override, image, open, torn, failures>>

Priced(p, c) == IF plan[p] = {} THEN {} ELSE plan[p] \cup {c}

\* Mutant: the plans get no price for the new currency.
SeedNothing(r) ==
    /\ pc[r] = "seedPrices"
    /\ IF memory[r].default THEN Continue(r, "clearOthers") ELSE Over(r)
    /\ UNCHANGED <<entry, plan, theme, override, image, open, torn, failures>>

SeedPrices(r) ==
    /\ pc[r] = "seedPrices"
    /\ plan' = [p \in Plan |-> Priced(p, memory[r].entry)]
    /\ IF memory[r].default THEN Continue(r, "clearOthers") ELSE Over(r)
    /\ UNCHANGED <<entry, theme, override, image, open, torn, failures>>

\* The body may leave each field as it has been read, or take the default away; one that
\* asks for the default enables the currency, too.
StartPatchCurrency(r) ==
    /\ \E c \in There(Currency), on \in BOOLEAN, default \in BOOLEAN, asks \in BOOLEAN :
          LET disables == entry[c].on /\ ~on IN
          /\ asks => on /\ default
          /\ default /\ ~entry[c].default => asks
          /\ disables => ~entry[c].default
          /\ Begin(r, IF disables THEN "countForPatch" ELSE "saveCurrency",
                   [area |-> "currencies", entry |-> c, read |-> entry[c],
                    on |-> on, default |-> default, asks |-> asks])
    /\ UNCHANGED <<entry, plan, theme, override, image, open, torn, failures>>

\* Mutant: nobody counts.
CountNobody(r) ==
    /\ pc[r] \in {"countForPatch", "countForDelete"}
    /\ Continue(r, IF pc[r] = "countForPatch" THEN "saveCurrency" ELSE "unsetPrices")
    /\ UNCHANGED <<entry, plan, theme, override, image, open, torn, failures>>

\* The last enabled currency stays.
CountEnabled(r) ==
    /\ pc[r] \in {"countForPatch", "countForDelete"}
    /\ IF Cardinality(Enabled(Currency)) <= 1 THEN Over(r)
       ELSE Continue(r, IF pc[r] = "countForPatch" THEN "saveCurrency" ELSE "unsetPrices")
    /\ UNCHANGED <<entry, plan, theme, override, image, open, torn, failures>>

\* A save writes the fields that differ from what was read, and throws when the document is gone.
SaveCurrency(r) ==
    LET k == memory[r] c == k.entry IN
    /\ pc[r] = "saveCurrency"
    /\ IF ~entry[c].there THEN Over(r) /\ UNCHANGED entry
       ELSE /\ entry' = [entry EXCEPT
                 ![c].on = IF k.on = k.read.on THEN @ ELSE k.on,
                 ![c].default = IF k.default = k.read.default THEN @ ELSE k.default]
            /\ IF k.asks THEN Continue(r, "clearOthers") ELSE Over(r)
    /\ UNCHANGED <<plan, theme, override, image, open, torn, failures>>

StartDeleteCurrency(r) ==
    /\ \E c \in There(Currency) \ Default(Currency) :
          Begin(r, IF entry[c].on THEN "countForDelete" ELSE "unsetPrices",
                [area |-> "currencies", entry |-> c])
    /\ UNCHANGED <<entry, plan, theme, override, image, open, torn, failures>>

UnsetPrices(r) ==
    /\ pc[r] = "unsetPrices"
    /\ plan' = [p \in Plan |-> plan[p] \ {memory[r].entry}]
    /\ Continue(r, "deleteEntry")
    /\ UNCHANGED <<entry, theme, override, image, open, torn, failures>>

DeleteEntry(r) ==
    /\ pc[r] = "deleteEntry"
    /\ entry' = [entry EXCEPT ![memory[r].entry] = Nothing]
    /\ Over(r)
    /\ UNCHANGED <<plan, theme, override, image, open, torn, failures>>

-----------------------------------------------------------------------------
(* Pricing plans                                                           *)

\* validatePricesCoverage: a price for every currency there is, and for no other.
StartSavePlan(r) ==
    /\ \E p \in Plan :
          Begin(r, IF plan[p] = {} THEN "createPlan" ELSE "updatePlan",
                [area |-> "currencies", plan |-> p, prices |-> There(Currency)])
    /\ UNCHANGED <<entry, plan, theme, override, image, open, torn, failures>>

SavePlan(r, may) ==
    LET p == memory[r].plan IN
    /\ plan' = IF may THEN [plan EXCEPT ![p] = {"plan"} \cup memory[r].prices] ELSE plan
    /\ Over(r)
    /\ UNCHANGED <<entry, theme, override, image, open, torn, failures>>

\* The plan's slug is unique.
CreatePlan(r) ==
    /\ pc[r] = "createPlan"
    /\ SavePlan(r, plan[memory[r].plan] = {})

\* The plan may be gone.
UpdatePlan(r) ==
    /\ pc[r] = "updatePlan"
    /\ SavePlan(r, plan[memory[r].plan] # {})

DeletePlan(p) ==
    /\ plan[p] # {}
    /\ plan' = [plan EXCEPT ![p] = {}]
    /\ UNCHANGED <<entry, theme, override, image, open, pc, memory, raced, torn, failures>>

-----------------------------------------------------------------------------
(* Payment gateways and e-mail providers                                   *)

\* Mutant: the default is written, and the others keep theirs.
UpsertOnly(r, d) ==
    /\ pc[r] = "idle"
    /\ \E on \in BOOLEAN, default \in BOOLEAN :
          entry' = [entry EXCEPT ![d] = [there |-> TRUE, on |-> on, default |-> default]]
    /\ UNCHANGED <<plan, theme, override, image, open, pc, memory, raced, torn, failures>>

\* One findOneAndUpdate; a default need not be enabled.
Upsert(r, d) ==
    /\ \E on \in BOOLEAN, default \in BOOLEAN :
          /\ entry' = [entry EXCEPT ![d] = [there |-> TRUE, on |-> on, default |-> default]]
          /\ IF default THEN Begin(r, "clearOthers", [area |-> "providers", entry |-> d])
             ELSE pc[r] = "idle" /\ UNCHANGED <<pc, memory, raced>>
    /\ UNCHANGED <<plan, theme, override, image, open, torn, failures>>

StartPutGateway(r) == \E d \in Gateway : Upsert(r, d)

StartPutMailer(r) == \E d \in Mailer : Upsert(r, d)

DeleteProvider(d) ==
    /\ entry[d].there
    /\ entry' = [entry EXCEPT ![d] = Nothing]
    /\ UNCHANGED <<plan, theme, override, image, open, pc, memory, raced, torn, failures>>

DeleteGateway == \E d \in Gateway : DeleteProvider(d)

DeleteMailer == \E d \in Mailer : DeleteProvider(d)

-----------------------------------------------------------------------------
(* Themes, and the timelines that use them                                 *)

\* Nobody makes a theme the default by creating or editing it.
CreateTheme(t) ==
    /\ ~entry[t].there
    /\ \E on \in BOOLEAN :
          entry' = [entry EXCEPT ![t] = [there |-> TRUE, on |-> on, default |-> FALSE]]
    /\ UNCHANGED <<plan, theme, override, image, open, pc, memory, raced, torn, failures>>

\* A published default may become a draft again.
PatchTheme(t) ==
    /\ entry[t].there
    /\ entry' = [entry EXCEPT ![t].on = ~@]
    /\ UNCHANGED <<plan, theme, override, image, open, pc, memory, raced, torn, failures>>

StartSetDefault(r) ==
    /\ \E t \in Enabled(Theme) :
          Begin(r, "saveDefault", [area |-> "themes", entry |-> t, read |-> entry[t]])
    /\ UNCHANGED <<entry, plan, theme, override, image, open, torn, failures>>

\* A theme that has been the default when it was read is not written again.
SaveDefault(r) ==
    LET t == memory[r].entry IN
    /\ pc[r] = "saveDefault"
    /\ IF memory[r].read.default THEN Continue(r, "clearOthers") /\ UNCHANGED entry
       ELSE IF ~entry[t].there THEN Over(r) /\ UNCHANGED entry
       ELSE /\ entry' = [entry EXCEPT ![t].default = TRUE]
            /\ Continue(r, "clearOthers")
    /\ UNCHANGED <<plan, theme, override, image, open, torn, failures>>

StartDeleteTheme(r) ==
    /\ \E t \in There(Theme) \ Default(Theme) :
          Begin(r, "countUses", [area |-> "themes", entry |-> t])
    /\ UNCHANGED <<entry, plan, theme, override, image, open, torn, failures>>

InUse(t) == theme = t \/ \E o \in Override : override[o].theme = t

\* Mutant: the ranges of days do not count as a use.
CountTimelinesOnly(r) ==
    /\ pc[r] = "countUses"
    /\ IF theme = memory[r].entry THEN Over(r) ELSE Continue(r, "deleteEntry")
    /\ UNCHANGED <<entry, plan, theme, override, image, open, torn, failures>>

CountUses(r) ==
    /\ pc[r] = "countUses"
    /\ IF InUse(memory[r].entry) THEN Over(r) ELSE Continue(r, "deleteEntry")
    /\ UNCHANGED <<entry, plan, theme, override, image, open, torn, failures>>

\* PUT /:slug/theme; the theme may have to be paid for before the timeline is saved.
StartSetTheme(r) ==
    /\ \E t \in Enabled(Theme) :
          Begin(r, "saveTimelineTheme", [area |-> "themes", entry |-> t])
    /\ UNCHANGED <<entry, plan, theme, override, image, open, torn, failures>>

SaveTimelineTheme(r) ==
    /\ pc[r] = "saveTimelineTheme"
    /\ theme' = memory[r].entry
    /\ Over(r)
    /\ UNCHANGED <<entry, plan, override, image, open, torn, failures>>

StartAddOverride(r) ==
    /\ \E t \in Enabled(Theme), days \in SUBSET Date \ {{}} :
          Begin(r, "findOverlap", [area |-> "themes", entry |-> t, days |-> days])
    /\ UNCHANGED <<entry, plan, theme, override, image, open, torn, failures>>

\* Mutant: only a range with the same theme is looked for.
FindOverlapOfTheme(r) ==
    /\ pc[r] = "findOverlap"
    /\ IF \E o \in Override : override[o].theme = memory[r].entry
                              /\ override[o].days \cap memory[r].days # {}
       THEN Over(r) ELSE Continue(r, "createOverride")
    /\ UNCHANGED <<entry, plan, theme, override, image, open, torn, failures>>

FindOverlap(r) ==
    /\ pc[r] = "findOverlap"
    /\ IF \E o \in Override : override[o].days \cap memory[r].days # {}
       THEN Over(r) ELSE Continue(r, "createOverride")
    /\ UNCHANGED <<entry, plan, theme, override, image, open, torn, failures>>

CreateOverride(r) ==
    /\ pc[r] = "createOverride"
    /\ \E o \in Override :
          /\ override[o] = NoOverride
          /\ override' = [override EXCEPT ![o] = [theme |-> memory[r].entry, days |-> memory[r].days]]
    /\ Over(r)
    /\ UNCHANGED <<entry, plan, theme, image, open, torn, failures>>

DeleteOverride(o) ==
    /\ override[o] # NoOverride
    /\ override' = [override EXCEPT ![o] = NoOverride]
    /\ UNCHANGED <<entry, plan, theme, image, open, pc, memory, raced, torn, failures>>

-----------------------------------------------------------------------------
(* The images of a theme                                                   *)

\* The object is written between the two steps, under a name of the theme's own.
ChangeImages(r, gains, loses) ==
    /\ Begin(r, "saveImage", [area |-> "image", gains |-> gains, loses |-> loses \cap image])
    /\ UNCHANGED <<entry, plan, theme, override, image, open, torn, failures>>

\* An image of the same type as the one that is there has its key, and then save() writes
\* nothing.
StartUploadLight(r) ==
    \E gains \in {{"light"}, {"light"} \ image} : ChangeImages(r, gains, {})

\* "Upload a light theme image first."
StartUploadDark(r) ==
    /\ "light" \in image
    /\ \E gains \in {{"dark"}, {"dark"} \ image} : ChangeImages(r, gains, {})

\* Mutant: the dark image stays when the light one goes.
StartRemoveLightOnly(r) == ChangeImages(r, {}, {"light"})

\* The dark image goes with the light one.
StartRemoveLight(r) == ChangeImages(r, {}, Images)

\* Nothing is saved when there is no dark image.
StartRemoveDark(r) ==
    /\ "dark" \in image
    /\ ChangeImages(r, {}, {"dark"})

SaveImage(r) ==
    /\ pc[r] = "saveImage"
    /\ image' = (image \ memory[r].loses) \cup memory[r].gains
    /\ Over(r)
    /\ UNCHANGED <<entry, plan, theme, override, open, torn, failures>>

-----------------------------------------------------------------------------
(* PATCH /:slug: visibility and guest view                                 *)

StartEdit(r) ==
    /\ \E new \in Settings :
          Begin(r, "saveSettings", [area |-> "timeline", read |-> open, new |-> new])
    /\ UNCHANGED <<entry, plan, theme, override, image, open, torn, failures>>

Changed(k, now, field) == IF k.new[field] = k.read[field] THEN now ELSE k.new[field]

\* Mutant: the guest view outlives a visibility that is no longer public.
SaveSettingsAsSent(r) ==
    LET k == memory[r] IN
    /\ pc[r] = "saveSettings"
    /\ open' = [public |-> Changed(k, open.public, "public"),
                guests |-> Changed(k, open.guests, "guests")]
    /\ Over(r)
    /\ UNCHANGED <<entry, plan, theme, override, image, torn, failures>>

\* The guest view is off unless the timeline is public, in the copy that was read and changed.
SaveSettings(r) ==
    LET k == [memory[r] EXCEPT !.new.guests = @ /\ memory[r].new.public] IN
    /\ pc[r] = "saveSettings"
    /\ open' = [public |-> Changed(k, open.public, "public"),
                guests |-> Changed(k, open.guests, "guests")]
    /\ Over(r)
    /\ UNCHANGED <<entry, plan, theme, override, image, torn, failures>>

-----------------------------------------------------------------------------

\* Stages after which a failure leaves half a change.
Halves == {"seedPrices", "clearOthers", "deleteEntry"}

\* The next call throws, or the process restarts.
Fail(r) ==
    /\ pc[r] # "idle"
    /\ failures < MaxFailures
    /\ failures' = failures + 1
    /\ pc' = [pc EXCEPT ![r] = "idle"]
    /\ memory' = [memory EXCEPT ![r] = Idle]
    /\ raced' = IF pc[r] \in Halves THEN raced \cup {memory[r].area} ELSE raced
    /\ torn' = torn \cup {l \in Lists : Moving(r, l)}
    /\ UNCHANGED <<entry, plan, theme, override, image, open>>

Currencies(r) ==
    \/ StartCreateCurrency(r) \/ SeedPrices(r)
    \/ StartPatchCurrency(r) \/ CountEnabled(r) \/ SaveCurrency(r)
    \/ StartDeleteCurrency(r) \/ UnsetPrices(r)
    \/ StartSavePlan(r) \/ CreatePlan(r) \/ UpdatePlan(r)

Themes(r) ==
    \/ StartSetDefault(r) \/ SaveDefault(r) \/ StartDeleteTheme(r) \/ CountUses(r)
    \/ StartSetTheme(r) \/ SaveTimelineTheme(r)
    \/ StartAddOverride(r) \/ FindOverlap(r) \/ CreateOverride(r)

CatalogNext ==
    \/ \E r \in Request :
          \/ Currencies(r) \/ Themes(r)
          \/ StartPutGateway(r) \/ StartPutMailer(r) \/ ClearOthers(r) \/ DeleteEntry(r)
          \/ StartUploadLight(r) \/ StartUploadDark(r)
          \/ StartRemoveLight(r) \/ StartRemoveDark(r) \/ SaveImage(r)
          \/ StartEdit(r) \/ SaveSettings(r)
          \/ Fail(r)
    \/ \E p \in Plan : DeletePlan(p)
    \/ DeleteGateway \/ DeleteMailer
    \/ \E t \in Theme : CreateTheme(t) \/ PatchTheme(t)
    \/ \E o \in Override : DeleteOverride(o)

CatalogSpec == CatalogInit /\ [][CatalogNext]_catalogVars

-----------------------------------------------------------------------------
(* Properties                                                              *)

Quiet(area) == area \notin raced /\ \A r \in Request : memory[r].area # area

\* No list has two defaults once its default is no longer being moved, however the moves
\* overlap (then there may be none), unless the last of them was cut in half.
OneDefault ==
    \A l \in Lists :
        \/ Cardinality(Default(l)) <= 1
        \/ l \in torn
        \/ \E r \in Request : Moving(r, l)

\* There is always a default theme and an enabled currency to fall back to; the default
\* theme may be a draft, and no currency may be the default.
AlwaysAFallback ==
    /\ "themes" \notin raced => Default(Theme) # {}
    /\ "currencies" \notin raced => Enabled(Currency) # {}

\* pricing.js: every plan has a price for every currency, and for no other.
PlansPriceEverything ==
    Quiet("currencies") => \A p \in Plan : plan[p] \in {{}, {"plan"} \cup There(Currency)}

\* A theme that a timeline shows is there, and no day has two.
ThemesAgree ==
    "themes" \notin raced =>
        /\ \A t \in Theme : InUse(t) => entry[t].there
        /\ \A o, q \in Override : o # q => override[o].days \cap override[q].days = {}

\* themes.js: "Dark can never legitimately outlive Light"; and guests view only what is
\* public, by the document: neither survives two edits that overlap.
FollowersFollow ==
    /\ "image" \notin raced => ("dark" \in image => "light" \in image)
    /\ "timeline" \notin raced => (open.guests => open.public)

\* What depends on something else follows it.
SettingsAgree == PlansPriceEverything /\ ThemesAgree /\ FollowersFollow
=============================================================================
