---------------------------- MODULE MCHttpxAgent ----------------------------
\* The instances of HttpxAgent that the runs check: a handler and the one its
\* stream goes to, and a handler alone.
EXTENDS HttpxAgent
=============================================================================
