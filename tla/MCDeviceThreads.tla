---- MODULE MCDeviceThreads ----
EXTENDS DeviceThreads
====
