SPECIFICATION Spec
CONSTANTS
    Hosts = {"victoriametrics", "victorialogs"}
    Pods = {"vm1", "vm2", "vl1"}
    OwnerOf <- MCOwnerOf
    None = None
    Lost = Lost
INVARIANTS ConnectedToOwnBackend FailureHasCause
