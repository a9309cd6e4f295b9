SPECIFICATION Spec
CONSTANTS
    Connections = {"c1", "c2"}
    Names = {"/a"}
    Matchers <- MCMatchers
    Attachments = {1, 2}
    MaxTasks = 5
    Workloads <- MCWorkloads
    Implemented = {"setup_connect_timer", "clear_connect_timer"}
INVARIANT NamespacesCleaned
