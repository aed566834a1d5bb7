-------------------------- MODULE MCNotifications --------------------------
EXTENDS Notifications

CONSTANTS api, enrichment

\* The production compose file gives the keys of web push to the api alone.
KeysOfProduction == [ch \in Channels |-> IF ch = "web" THEN {api} ELSE {}]

\* One process sends web pushes and one sends to phones: the two channels share
\* nothing, and an announcement then starts one run.
KeysApart == [ch \in Channels |-> IF ch = "web" THEN {enrichment} ELSE {api}]

AllOnApi == [c \in Clients |-> api]
============================================================================
