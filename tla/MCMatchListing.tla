---------------------------- MODULE MCMatchListing ----------------------------
EXTENDS MatchListing, TLC

CONSTANTS here, also, own, copied

\* Two addresses of the chain, one with two verified contracts.
MCPlace == 1 :> here @@ 2 :> also @@ 3 :> here

MCFilters == {{here}, {here, also}}

=============================================================================
