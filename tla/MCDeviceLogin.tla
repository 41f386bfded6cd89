----------------------------- MODULE MCDeviceLogin -----------------------------
EXTENDS DeviceLogin, TLC
=============================================================================
