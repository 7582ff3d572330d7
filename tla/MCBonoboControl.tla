-------------------------- MODULE MCBonoboControl --------------------------
EXTENDS BonoboControl
=============================================================================
