\* The whole boot.
SPECIFICATION S2Spec
INVARIANTS TlbCoherent TenantsIsolated EmulatedDevicesTrap
