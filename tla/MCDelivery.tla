----------------------------- MODULE MCDelivery -----------------------------
\* An instance of Delivery: four trades, one of which the API does not return.
EXTENDS Delivery

OneWithheld == {2}
=============================================================================
