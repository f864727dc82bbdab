---------------------------- MODULE MCGpioBoard -----------------------------
EXTENDS GpioBoard
=============================================================================
