SPECIFICATION SchemaSpec
INVARIANTS RowsAreDatedOnBoth
