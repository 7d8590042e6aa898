SPECIFICATION InventorySpec
CONSTANT MaxVisits = 2
PROPERTY DecommissionIsTerminal
CHECK_DEADLOCK FALSE
