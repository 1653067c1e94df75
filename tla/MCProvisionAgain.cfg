CONSTANTS
  Container = {"web"}
  Version = {1}
  None = None
  MaxRestarts = 0
SPECIFICATION Spec
PROPERTIES IdempotentProvision
