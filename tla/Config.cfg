\* A script used twice, stopped anywhere, while servers start on whatever file there is.
SPECIFICATION Spec
CONSTANTS
  MaxServers = 4
  MaxDialogs = 2
  Found = {
    {"Master_Flag", "Twitter_Api_Key", "Local_Server_IP", "Local_Server_Port",
     "Number_Of_Servers", "Master_Server_IP", "Master_Server_Port"},
    {"Master_Flag", "Slave_Index", "Twitter_Api_Key", "Local_Server_IP", "Local_Server_Port",
     "Number_Of_Servers", "Master_Server_IP", "Master_Server_Port"},
    {"Master_Flag", "Slave_Index", "Twitter_Api_Key", "Local_Server_IP", "Local_Server_Port",
     "Number_Of_Servers"}}
  Blanks = {{}, {"Master_Flag"}, {"Slave_Index", "Number_Of_Servers", "Local_Server_Port"}}
INVARIANTS
  LoadedInOrder
  RowsInOrder
  CompiledIn
CHECK_DEADLOCK FALSE
