--------------------------- MODULE MCMembership ---------------------------
\* One account with a request to join, nothing failing by itself.
EXTENDS Membership

CONSTANT u1
===========================================================================
