---------------------------- MODULE MCUserStore ----------------------------
\* One channel and one private conversation of a connection.
EXTENDS UserStore
=============================================================================
