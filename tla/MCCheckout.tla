------------------------------ MODULE MCCheckout ------------------------------
(* Checkout with the small catalogue: a customer makes one change. *)
EXTENDS MCCatalogue

VARIABLES page, draft, form, compared, configs, listed, loaded, timer, flights, data, error,
          loading, onSale, offered, parts, changes, edits, faults

INSTANCE Checkout WITH
    UtcOffset <- 0,
    Services <- TwoServices, Bundles <- OneBundle, Recompositions <- Recomposed,
    Carts <- TwoCarts, Configs <- TwoConfigs, Slots <- TwoSlots, TypedStarts <- {2520},
    Tomorrow <- 2160, BrowserOffset <- -60, Jurisdictions <- TwoJurisdictions, FirstListed <- j1,
    MilesGiven <- {15, 25}, AskedTimes <- {1860},
    MaxChanges <- 1, MaxEdits <- 1, MaxFaults <- 1
=============================================================================
