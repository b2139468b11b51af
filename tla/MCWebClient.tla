----------------------------- MODULE MCWebClient -----------------------------
EXTENDS WebClient
CONSTANT tab1
OneTab == [c \in Call |-> tab1]
==============================================================================
