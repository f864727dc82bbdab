---------------------------- MODULE MCGpioSysfs -----------------------------
EXTENDS GpioSysfs
=============================================================================
