------------------------------ MODULE MCStatusLed ------------------------------
EXTENDS StatusLed
===============================================================================
