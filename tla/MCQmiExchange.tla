---------------------------- MODULE MCQmiExchange ----------------------------
\* Every message of the five services, its arrays and strings empty, with one
\* item and full, from a peer that may know two fields more.
EXTENDS QmiExchange

MCFills == {"none", "one", "full"}
MCUnknown == {240, 241}

===============================================================================
