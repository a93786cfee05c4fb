---------------------------- MODULE AgentOutputs ----------------------------
(***************************************************************************)
(* The semantic checks of what an agent answers (agents/strategy.py,       *)
(* product_offer.py, brand.py, website_specification.py,                   *)
(* website_coding.py), applied when the run ends and again when the        *)
(* founder approves, and the controlled build of a website project         *)
(* (website_projects/tools.py).                                            *)
(*                                                                         *)
(* An answer cites evidence: records <<kind, version>> and findings, named *)
(* by the research run that found them.  The items of an answer are taken  *)
(* together; their own identifiers and wording are left out.  A page is    *)
(* named by its route, a document of the website by the page it is for.    *)
(***************************************************************************)
EXTENDS BusinessContext, FiniteSets

CONSTANT Files      \* documents of pages and other files of a website

Root == "home"      \* the page at "/"
NoParent == "none"
Empty == [x \in {} |-> NoParent]

NoAnswer == [cites |-> {}, sitemap |-> Empty, specified |-> {},
             operation |-> "none", changes |-> Empty, traced |-> {}, tested |-> {}]

Refs(agent, pins) == {<<k, pins[k]>> : k \in Sources[agent]}

\* Seeded fault: an item may cite what the run did not pin.
CitesEnough(answer, pinned, allowed) == pinned \subseteq answer.cites
\* Every kind of evidence is cited, and nothing that the run did not pin.
CitesOnly(answer, pinned, allowed) ==
    /\ pinned \subseteq answer.cites
    /\ answer.cites \subseteq allowed

\* A strategy rests on the approved facts and on research.
ValidStrategy(answer, pins, findings) ==
    /\ CitesOnly(answer, Refs("strategy", pins), Refs("strategy", pins) \cup findings)
    /\ answer.cites \cap findings # {}
ValidOffer(answer, pins) == CitesOnly(answer, Refs("offer", pins), Refs("offer", pins))
ValidBrand(answer, pins) == CitesOnly(answer, Refs("brand", pins), Refs("brand", pins))

-----------------------------------------------------------------------------
(* The sitemap: a function from its pages to their parents. *)

\* Where the walk from a page to its parents is after so many steps.
Walk(sitemap, page, steps) ==
    LET at[n \in 0..steps] ==
            IF n = 0 THEN page
            ELSE IF at[n - 1] \in DOMAIN sitemap THEN sitemap[at[n - 1]] ELSE NoParent
    IN at[steps]

NoCycle(sitemap) ==
    \A page \in DOMAIN sitemap : Walk(sitemap, page, Cardinality(DOMAIN sitemap)) = NoParent

IsSitemap(sitemap) ==
    /\ Root \in DOMAIN sitemap /\ sitemap[Root] = NoParent
    /\ \A page \in DOMAIN sitemap :
           sitemap[page] # NoParent => sitemap[page] \in DOMAIN sitemap \ {page}
    /\ NoCycle(sitemap)

ValidSpecification(answer, pins) ==
    /\ CitesOnly(answer, Refs("specification", pins), Refs("specification", pins))
    /\ IsSitemap(answer.sitemap)
    /\ answer.specified = DOMAIN answer.sitemap

-----------------------------------------------------------------------------
(* The website: a function from Files to the run that wrote the file, 0 for none. *)

NoTree == [f \in Files |-> 0]
Present(tree) == {f \in Files : tree[f] # 0}

\* Each path changes once; what exists is updated or deleted, what does not is added.
Applicable(tree, operation, changes) ==
    /\ changes # Empty
    /\ \A f \in DOMAIN changes :
           /\ operation = "generate" => changes[f] = "add"
           /\ f \in Present(tree) <=> changes[f] # "add"

Resulting(tree, changes, run) ==
    [f \in Files |-> IF f \notin DOMAIN changes THEN tree[f]
                     ELSE IF changes[f] = "delete" THEN 0 ELSE run]

\* base: the files of the pinned project; site: the sitemap of the pinned specification.
ValidChanges(answer, pins, operation, base, site) ==
    /\ CitesOnly(answer, Refs("project", pins), Refs("project", pins))
    /\ answer.operation = operation
    /\ operation = "generate" <=> Present(base) = {}
    /\ Applicable(base, operation, answer.changes)
    /\ answer.traced # {}
    /\ answer.traced \subseteq Present(Resulting(base, answer.changes, 1))
    /\ answer.tested = DOMAIN site

\* Seeded fault: the route of a page is not looked up in the resulting tree.
NotLookedUp(tree, site) == TRUE
\* The build wants a document for every page.
Builds(tree, site) == DOMAIN site \subseteq Present(tree)
=============================================================================
