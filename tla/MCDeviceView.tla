---------------------------- MODULE MCDeviceView ----------------------------
EXTENDS DeviceView
=============================================================================
