SPECIFICATION Spec
CONSTANTS
  Operators = {"a", "b"}
  Tenants <- MCTenants
  Own = "heliostat"
  Devices <- MCDevices
  Home <- MCHome
  Turbines <- MCTurbines
  Rig = "rig"
  Subsystems <- MCSubsystems
  MaxRetries = 1
  Duties <- MCDuties
  MaxFaults = 2
INVARIANTS FailureIsExplained SuccessIsComplete ExportIsComplete
